---- MODULE Spec2Model ----
(***************************************************************************)
(* Model of the Classroom synchronisation and submission workflow of the   *)
(* backend (backend/app/routes/classroom.py, routes/assignments.py,        *)
(* routes/auth.py and the services they call).                             *)
(*                                                                         *)
(* The database tables are sequences of rows in insertion order; the       *)
(* primary key of a row is its position (autoincrement, no row is ever     *)
(* deleted).  query(...).filter(...).first() is the first row, in that     *)
(* order, that satisfies the filter.  Every route is an `async def` whose  *)
(* body never awaits, so one request runs to completion before the next:   *)
(* each handler is one action.                                             *)
(*                                                                         *)
(* tasks is the set of background generation tasks that were scheduled     *)
(* and have not run yet, each named by the id of the Draft it was given.   *)
(* A task runs after the response of the request that scheduled it, so     *)
(* other requests may be served in between; the task itself never          *)
(* suspends and is one action.                                             *)
(***************************************************************************)
EXTENDS Integers, Sequences, FiniteSets, TLC

VARIABLES users, courses, assignments, materials, drafts, tmpfiles, tasks,
          folders, callers, resp

vars == <<users, courses, assignments, materials, drafts, tmpfiles, tasks,
          folders, callers,
          resp>>

----------------------------------------------------------------------------
(* Bounds of the model *)

\* longest remote list (courses, coursework, materials) one fetch returns
MaxList == 2
\* most Draft rows created
MaxDrafts == 2
\* most temporary PDF files left behind on local storage
MaxTmp == 1
\* most Material rows (a sync that would exceed it is not taken)
MaxMaterials == 3
MaxFolders == 3

----------------------------------------------------------------------------
(* Values *)

\* SQL NULL / Python None
NULL == "NULL"
\* a key the remote JSON object does not carry
ABSENT == "ABSENT"

\* registered users (rows of the users table, by primary key)
Users == {1, 2}

\* dict.get(key, default) on a remote object whose missing keys are ABSENT
Get(obj, key, default) == IF obj[key] = ABSENT THEN default ELSE obj[key]

\* Python truthiness of an optional string: None and "" are falsy
Truthy(v) == v # NULL /\ v # ""

\* all sequences over S of length at most n
SeqsUpTo(S, n) == UNION {[1..k -> S] : k \in 0..n}

\* .first() on the rows (indices) a filter selects: the earliest row, 0 when
\* the filter selects none
First(rows) ==
    IF rows = {} THEN 0 ELSE CHOOSE i \in rows : \A j \in rows : i <= j

\* The response of a handler that did nothing but answer.  Beside the HTTP
\* status and detail, resp records what the last request did: the rows it
\* inserted and updated, the material lists it was given (m_input), how
\* the due date of each coursework item that carried one was composed
\* (due_log), the
\* renderer, Drive and Classroom calls it made, in order, each with its
\* outcome (calls), the requesting user of a sync, a submission or a
\* generation request, the draft of the latter two, the temporary file
\* a submission used (0: none), and the folder id a call of
\* find_or_create_folder returned.
\* The run of a background task is recorded the same way, its generator
\* outcome as detail and the content and status it found in the row as
\* replaced.
Reply(op, code, detail) ==
    [op |-> op, status_code |-> code, detail |-> detail,
     inserted |-> 0, updated |-> 0, m_inserted |-> 0, m_input |-> <<>>,
     due_log |-> <<>>, calls |-> <<>>, user |-> 0, draft_id |-> 0,
     pdf_path |-> 0, folder_id |-> NULL, replaced |-> <<>>,
     credentials |-> <<>>]

----------------------------------------------------------------------------
(* routes/auth.py *)

\* google_callback_post for a user already registered: the token pair of
\* the OAuth exchange (made with access_type offline and prompt consent, so
\* a refresh token comes with it) is stored on the user row, with the expiry
\* computed as utcnow() + timedelta(seconds=expires_in).
google_callback_post(u) ==
    /\ users' = [users EXCEPT ![u].google_access_token = TRUE,
                              ![u].google_refresh_token = TRUE,
                              ![u].token_expiry = "utcnow+expires_in"]
    /\ resp' = Reply("google_callback_post", 200, "")
    /\ UNCHANGED <<courses, assignments, materials, drafts, tmpfiles, tasks,
                   folders, callers>>

----------------------------------------------------------------------------
(* routes/classroom.py: get_courses *)

CourseFields == {"name", "section", "description", "room"}

\* the Course row created for a remote course not yet mirrored
NewCourse(cs, u, g) ==
    [id |-> Len(cs) + 1,
     google_course_id |-> g.id,
     name |-> Get(g, "name", "Unnamed Course"),
     section |-> Get(g, "section", NULL),
     description |-> Get(g, "description", NULL),
     room |-> Get(g, "room", NULL),
     user_id |-> u]

\* (mutant) the update branch with the create branch's defaults: a field the
\* remote record does not carry is reset to NULL
UpdatedCourseNoDefault(row, g) ==
    [row EXCEPT !.name = Get(g, "name", row.name),
                !.section = Get(g, "section", NULL),
                !.description = Get(g, "description", NULL),
                !.room = Get(g, "room", NULL)]

\* the Course row after the update branch
UpdatedCourse(row, g) ==
    [row EXCEPT !.name = Get(g, "name", row.name),
                !.section = Get(g, "section", row.section),
                !.description = Get(g, "description", row.description),
                !.room = Get(g, "room", row.room)]

\* rows of cs mirroring the remote course gid for user u
CourseRows(cs, u, gid) ==
    {i \in 1..Len(cs) : cs[i].google_course_id = gid /\ cs[i].user_id = u}

\* (mutant) the lookup comparing the row's primary key, not its user_id,
\* with the caller's id
CourseIdxWrongColumn(cs, u, gid) ==
    First({i \in 1..Len(cs) : cs[i].google_course_id = gid /\ cs[i].id = u})

\* the lookup by (google_course_id, user_id)
CourseIdx(cs, u, gid) == First(CourseRows(cs, u, gid))

\* one iteration of the loop over google_courses
UpsertCourse(cs, u, g) ==
    LET i == CourseIdx(cs, u, g.id)
    IN  IF i = 0
        THEN Append(cs, NewCourse(cs, u, g))
        ELSE [cs EXCEPT ![i] = UpdatedCourse(cs[i], g)]

\* the loop over google_courses, in list order
RECURSIVE SyncCourses(_, _, _)
SyncCourses(cs, u, gl) ==
    IF gl = <<>> THEN cs
    ELSE SyncCourses(UpsertCourse(cs, u, Head(gl)), u, Tail(gl))

\* (mutant) credentials built as get_user_info builds them, without expiry
create_credentialsNoExpiry(access_token, refresh_token, expiry) ==
    [token |-> access_token, refresh_token |-> refresh_token, expiry |-> NULL]

\* services/google_auth.py: the Credentials object of the Google client
create_credentials(access_token, refresh_token, expiry) ==
    [token |-> access_token, refresh_token |-> refresh_token,
     expiry |-> expiry]

\* GoogleClassroomService(...) and GoogleDriveService(...) as the routes
\* construct them: the service and the credentials its client sends with
GoogleService(kind, u) ==
    <<kind, create_credentials(users[u].google_access_token,
                               users[u].google_refresh_token,
                               users[u].token_expiry)>>

\* (mutant) the check left out
TokenMissingNever(u) == FALSE

\* `not current_user.google_access_token`
TokenMissing(u) == ~users[u].google_access_token

get_courses(u, google_courses) ==
    IF TokenMissing(u)
    THEN /\ resp' = [Reply("get_courses", 403,
                           "Google authentication required") EXCEPT
                        !.user = u]
         /\ UNCHANGED <<users, courses, assignments, materials, drafts,
                        tmpfiles, tasks, folders, callers>>
    ELSE LET after == SyncCourses(courses, u, google_courses)
         IN  /\ courses' = after
             /\ resp' = [Reply("get_courses", 200, "") EXCEPT
                            !.user = u,
                            !.credentials = <<GoogleService("classroom", u)>>,
                            !.calls = <<<<"classroom.get_courses", "ok">>>>,
                            !.inserted = Len(after) - Len(courses),
                            !.updated = Len(google_courses)
                                          - (Len(after) - Len(courses))]
             /\ UNCHANGED <<users, assignments, materials, drafts, tmpfiles,
                            tasks, folders, callers>>

----------------------------------------------------------------------------
(* routes/classroom.py: process_materials *)

MaterialKeys == {"driveFile", "youtubeVideo", "link", "form"}

\* outcomes of drive_service.download_file followed by read().decode():
\* the decoded text (possibly empty), no stream, or bytes that do not decode
DL_FAIL == "DL_FAIL"
DL_UNDECODABLE == "DL_UNDECODABLE"

\* (mutant) a failed download leaves the content empty
DownloadedContentNoMarker(outcome) ==
    CASE outcome = DL_FAIL -> NULL
      [] outcome = DL_UNDECODABLE -> "[Error decoding content]"
      [] OTHER -> outcome

\* the content stored for a Drive file whose download was attempted
DownloadedContent(outcome) ==
    CASE outcome = DL_FAIL -> "[Content download failed]"
      [] outcome = DL_UNDECODABLE -> "[Error decoding content]"
      [] OTHER -> outcome

\* (mutant) the chain with the link branch tested before the video branch
ClassifyLinkFirst(material, dl) ==
    IF "driveFile" \in material.has THEN
        LET drive_file == material.inner["driveFile"]
            gid == Get(drive_file, "id", NULL)
        IN  [type |-> "drive_file",
             title |-> Get(drive_file, "title", "Drive File"),
             url |-> Get(drive_file, "link", NULL),
             google_material_id |-> gid,
             content |-> IF Truthy(gid) THEN DownloadedContent(dl[gid])
                         ELSE NULL]
    ELSE IF "link" \in material.has THEN
        [type |-> "link",
         title |-> Get(material.inner["link"], "title", "Link"),
         url |-> Get(material.inner["link"], "link", NULL),
         google_material_id |-> NULL,
         content |-> NULL]
    ELSE IF "youtubeVideo" \in material.has THEN
        [type |-> "youtube",
         title |-> Get(material.inner["youtubeVideo"], "title", "YouTube Video"),
         url |-> Get(material.inner["youtubeVideo"], "link", NULL),
         google_material_id |-> Get(material.inner["youtubeVideo"], "id", NULL),
         content |-> NULL]
    ELSE IF "form" \in material.has THEN
        [type |-> "form",
         title |-> Get(material.inner["form"], "title", "Form"),
         url |-> Get(material.inner["form"], "link", NULL),
         google_material_id |-> Get(material.inner["form"], "id", NULL),
         content |-> NULL]
    ELSE [type |-> "unknown", title |-> "Untitled Material", url |-> NULL,
          google_material_id |-> NULL, content |-> NULL]

\* A remote material is [has, inner]: has is the set of variant keys the
\* payload carries and inner[k] the object under key k (for driveFile the
\* nested driveFile object, all of whose keys are ABSENT when it is
\* missing), with its title, its link (alternateLink, url or formUrl) and
\* its id.
\* The if / elif chain: type, title, url, remote id and content of one payload.
\* dl maps a Drive file id to the outcome of its download.
Classify(material, dl) ==
    IF "driveFile" \in material.has THEN
        LET drive_file == material.inner["driveFile"]
            gid == Get(drive_file, "id", NULL)
        IN  [type |-> "drive_file",
             title |-> Get(drive_file, "title", "Drive File"),
             url |-> Get(drive_file, "link", NULL),
             google_material_id |-> gid,
             content |-> IF Truthy(gid) THEN DownloadedContent(dl[gid])
                         ELSE NULL]
    ELSE IF "youtubeVideo" \in material.has THEN
        LET video == material.inner["youtubeVideo"]
        IN  [type |-> "youtube",
             title |-> Get(video, "title", "YouTube Video"),
             url |-> Get(video, "link", NULL),
             google_material_id |-> Get(video, "id", NULL),
             content |-> NULL]
    ELSE IF "link" \in material.has THEN
        LET link == material.inner["link"]
        IN  [type |-> "link",
             title |-> Get(link, "title", "Link"),
             url |-> Get(link, "link", NULL),
             google_material_id |-> NULL,
             content |-> NULL]
    ELSE IF "form" \in material.has THEN
        LET form == material.inner["form"]
        IN  [type |-> "form",
             title |-> Get(form, "title", "Form"),
             url |-> Get(form, "link", NULL),
             google_material_id |-> Get(form, "id", NULL),
             content |-> NULL]
    ELSE [type |-> "unknown", title |-> "Untitled Material", url |-> NULL,
          google_material_id |-> NULL, content |-> NULL]

\* The lookup query.  Each of the first and third criteria is the Python
\* conditional expression `(column == value) if value else None`; a None
\* criterion is rendered as the SQL constant NULL, and a WHERE clause with a
\* NULL conjunct selects no row.  So a row is found only when the remote id
\* and the URL are both given and both equal the row's.
MaterialIdx(ms, assignment_id, gmid, url) ==
    IF ~Truthy(gmid) \/ ~Truthy(url) THEN 0
    ELSE First({i \in 1..Len(ms) :
                  /\ ms[i].google_material_id = gmid
                  /\ ms[i].assignment_id = assignment_id
                  /\ ms[i].url = url})

\* the Material row created for a payload classified as c
NewMaterial(ms, assignment_id, c) ==
    [id |-> Len(ms) + 1,
     google_material_id |-> c.google_material_id,
     title |-> c.title,
     type |-> c.type,
     url |-> c.url,
     content |-> c.content,
     assignment_id |-> assignment_id]

\* (mutant) the update branch writing the content whatever it is
UpdatedMaterialAlwaysContent(row, c) ==
    [row EXCEPT !.title = c.title,
                !.url = c.url,
                !.type = c.type,
                !.content = c.content]

\* the Material row after the update branch
UpdatedMaterial(row, c) ==
    [row EXCEPT !.title = c.title,
                !.url = c.url,
                !.type = c.type,
                !.content = IF Truthy(c.content) THEN c.content
                            ELSE row.content]

\* one iteration of the loop over google_materials
UpsertMaterial(ms, assignment_id, material, dl) ==
    LET c == Classify(material, dl)
        i == MaterialIdx(ms, assignment_id, c.google_material_id, c.url)
    IN  IF i = 0
        THEN Append(ms, NewMaterial(ms, assignment_id, c))
        ELSE [ms EXCEPT ![i] = UpdatedMaterial(ms[i], c)]

RECURSIVE process_materials(_, _, _, _)
process_materials(ms, google_materials, assignment_id, dl) ==
    IF google_materials = <<>> THEN ms
    ELSE process_materials(
            UpsertMaterial(ms, assignment_id, Head(google_materials), dl),
            Tail(google_materials), assignment_id, dl)

----------------------------------------------------------------------------
(* routes/classroom.py: get_assignments *)

\* an integer key the remote date or time object does not carry
ABSENT_INT == -1

GetInt(v, default) == IF v = ABSENT_INT THEN default ELSE v

IsLeap(y) == (y % 4 = 0 /\ y % 100 # 0) \/ y % 400 = 0

DaysInMonth(y, m) ==
    IF m = 2 THEN (IF IsLeap(y) THEN 29 ELSE 28)
    ELSE IF m \in {4, 6, 9, 11} THEN 30 ELSE 31

\* datetime(year, month, day, hour, minute) does not raise ValueError
ValidDateTime(y, m, d, h, mi) ==
    /\ y \in 1..9999
    /\ m \in 1..12
    /\ d >= 1 /\ d <= DaysInMonth(y, m)
    /\ h \in 0..23
    /\ mi \in 0..59

\* due dates are tuples <<year, month, day, hour, minute>>; the empty tuple
\* is the NULL due date
NoDate == <<>>

\* A remote coursework object is [id, title, description, has_due_date,
\* dueDate, has_due_time, dueTime, has_materials, materials].
\* The due date parsed from it: NULL unless both parts are there and valid.
ParseDueDate(ga) ==
    IF ga.has_due_date /\ ga.has_due_time
    THEN LET y == GetInt(ga.dueDate.year, 1970)
             m == GetInt(ga.dueDate.month, 1)
             d == GetInt(ga.dueDate.day, 1)
             h == GetInt(ga.dueTime.hours, 0)
             mi == GetInt(ga.dueTime.minutes, 0)
         IN  IF ValidDateTime(y, m, d, h, mi)
             THEN <<y, m, d, h, mi>> ELSE NoDate
    ELSE NoDate

AssignmentRows(as, course_pk, gaid) ==
    {i \in 1..Len(as) :
        as[i].google_assignment_id = gaid /\ as[i].course_id = course_pk}

\* (mutant) the lookup comparing the row's primary key, not its course_id,
\* with the course's id
AssignmentIdxWrongColumn(as, course_pk, gaid) ==
    First({i \in 1..Len(as) :
             as[i].google_assignment_id = gaid /\ as[i].id = course_pk})

\* the lookup by (google_assignment_id, course_id)
AssignmentIdx(as, course_pk, gaid) == First(AssignmentRows(as, course_pk, gaid))

NewAssignment(as, u, course_pk, ga) ==
    [id |-> Len(as) + 1,
     google_assignment_id |-> ga.id,
     title |-> Get(ga, "title", "Untitled Assignment"),
     description |-> Get(ga, "description", ""),
     due_date |-> ParseDueDate(ga),
     course_id |-> course_pk,
     user_id |-> u]

UpdatedAssignment(row, ga) ==
    [row EXCEPT !.title = Get(ga, "title", row.title),
                !.description = Get(ga, "description", row.description),
                !.due_date = IF ParseDueDate(ga) # NoDate
                             THEN ParseDueDate(ga) ELSE row.due_date]

\* (mutant) an item whose due date does not compose is left out
UpsertAssignmentDropsBadDate(st, u, course_pk, ga, dl) ==
    LET i == AssignmentIdx(st.as, course_pk, ga.id)
        as2 == IF i = 0
               THEN Append(st.as, NewAssignment(st.as, u, course_pk, ga))
               ELSE [st.as EXCEPT ![i] = UpdatedAssignment(st.as[i], ga)]
        aid == IF i = 0 THEN Len(st.as) + 1 ELSE i
    IN  IF ga.has_due_date /\ ga.has_due_time /\ ParseDueDate(ga) = NoDate
        THEN st
        ELSE [as |-> as2,
              ms |-> IF ga.has_materials
                     THEN process_materials(st.ms, ga.materials, aid, dl)
                     ELSE st.ms]

\* one iteration of the loop over google_assignments, on the pair of tables
\* st = [as, ms]: the assignment upsert, then its materials when it has any
UpsertAssignment(st, u, course_pk, ga, dl) ==
    LET i == AssignmentIdx(st.as, course_pk, ga.id)
        as2 == IF i = 0
               THEN Append(st.as, NewAssignment(st.as, u, course_pk, ga))
               ELSE [st.as EXCEPT ![i] = UpdatedAssignment(st.as[i], ga)]
        aid == IF i = 0 THEN Len(st.as) + 1 ELSE i
    IN  [as |-> as2,
         ms |-> IF ga.has_materials
                THEN process_materials(st.ms, ga.materials, aid, dl)
                ELSE st.ms]

RECURSIVE SyncAssignments(_, _, _, _, _)
SyncAssignments(st, u, course_pk, gl, dl) ==
    IF gl = <<>> THEN st
    ELSE SyncAssignments(UpsertAssignment(st, u, course_pk, Head(gl), dl),
                         u, course_pk, Tail(gl), dl)

\* the material lists of a fetched coursework list, each with the course and
\* the coursework it belongs to
MaterialInput(course_id, gl) ==
    [k \in {j \in 1..Len(gl) : gl[j].has_materials} |->
        <<course_id, gl[k].id, gl[k].materials>>]

\* for each fetched coursework item that carries both dueDate and dueTime,
\* in list order: the course, the coursework id, and whether datetime(...)
\* returned ("ok") or raised ("ValueError")
DueLog(course_id, gl) ==
    LET dated == {j \in 1..Len(gl) : gl[j].has_due_date /\ gl[j].has_due_time}
        RECURSIVE log(_)
        log(k) ==
            IF k > Len(gl) THEN <<>>
            ELSE (IF k \in dated
                  THEN <<<<course_id, gl[k].id,
                           IF ParseDueDate(gl[k]) = NoDate THEN "ValueError"
                           ELSE "ok">>>>
                  ELSE <<>>) \o log(k + 1)
    IN  log(1)

\* the course lookup by (id, user_id)
OwnCourseIdx(cs, u, course_id) ==
    First({i \in 1..Len(cs) : cs[i].id = course_id /\ cs[i].user_id = u})

\* the Drive downloads process_materials attempts for a material list, in
\* order: one for each Drive file that carries an id, with "stream" or
\* "none" as what download_file returned, and the outcome of reading and
\* decoding it
RECURSIVE MaterialDownloads(_, _)
MaterialDownloads(ml, dl) ==
    IF ml = <<>> THEN <<>>
    ELSE LET c == Classify(Head(ml), dl)
         IN  (IF c.type = "drive_file" /\ Truthy(c.google_material_id)
              THEN <<<<"drive.download_file",
                       IF dl[c.google_material_id] = DL_FAIL THEN "none"
                       ELSE "stream",
                       dl[c.google_material_id]>>>>
              ELSE <<>>) \o MaterialDownloads(Tail(ml), dl)

\* the remote calls of a coursework sync: the list call, then the downloads
RECURSIVE SyncCalls(_, _)
SyncCalls(gl, dl) ==
    IF gl = <<>> THEN <<<<"classroom.get_assignments", "ok">>>>
    ELSE SyncCalls(SubSeq(gl, 1, Len(gl) - 1), dl)
         \o (IF gl[Len(gl)].has_materials
             THEN MaterialDownloads(gl[Len(gl)].materials, dl) ELSE <<>>)

get_assignments(u, course_id, google_assignments, dl) ==
    IF TokenMissing(u)
    THEN /\ resp' = [Reply("get_assignments", 403,
                           "Google authentication required") EXCEPT
                        !.user = u]
         /\ UNCHANGED <<users, courses, assignments, materials, drafts,
                        tmpfiles, tasks, folders, callers>>
    ELSE IF OwnCourseIdx(courses, u, course_id) = 0
    THEN /\ resp' = [Reply("get_assignments", 404, "Course not found") EXCEPT
                        !.user = u,
                        !.calls = <<>>]
         /\ UNCHANGED <<users, courses, assignments, materials, drafts,
                        tmpfiles, tasks, folders, callers>>
    ELSE LET after == SyncAssignments([as |-> assignments, ms |-> materials],
                                      u, course_id, google_assignments, dl)
         IN  /\ Len(after.ms) <= MaxMaterials
             /\ assignments' = after.as
             /\ materials' = after.ms
             /\ resp' = [Reply("get_assignments", 200, "") EXCEPT
                            !.user = u,
                            !.credentials = <<GoogleService("classroom", u),
                                              GoogleService("drive", u)>>,
                            !.calls = SyncCalls(google_assignments, dl),
                            !.inserted = Len(after.as) - Len(assignments),
                            !.updated = Len(google_assignments)
                                          - (Len(after.as) - Len(assignments)),
                            !.m_inserted = Len(after.ms) - Len(materials),
                            !.m_input = MaterialInput(course_id,
                                                      google_assignments),
                            !.due_log = DueLog(course_id, google_assignments)]
             /\ UNCHANGED <<users, courses, drafts, tmpfiles, tasks, folders,
                            callers>>

----------------------------------------------------------------------------
(* routes/assignments.py: create_draft, update_draft *)

\* Draft rows are [id, content, status, submission_date, user_id,
\* assignment_id]; feedback and the created/updated stamps, which no
\* handler reads, are left out.

\* (mutant) the assignment lookup by id alone
OwnAssignmentIdxAnyUser(as, u, assignment_id) ==
    First({i \in 1..Len(as) : as[i].id = assignment_id})

\* the assignment lookup by (id, user_id)
OwnAssignmentIdx(as, u, assignment_id) ==
    First({i \in 1..Len(as) : as[i].id = assignment_id /\ as[i].user_id = u})

\* (mutant) the draft lookup by id alone
OwnDraftIdxAnyUser(ds, u, draft_id) ==
    First({i \in 1..Len(ds) : ds[i].id = draft_id})

\* the draft lookup by (id, user_id)
OwnDraftIdx(ds, u, draft_id) ==
    First({i \in 1..Len(ds) : ds[i].id = draft_id /\ ds[i].user_id = u})

get_draft(u, draft_id) ==
    /\ resp' = [(IF OwnDraftIdx(drafts, u, draft_id) = 0
                 THEN Reply("get_draft", 404, "Draft not found")
                 ELSE Reply("get_draft", 200, "")) EXCEPT
                   !.draft_id = draft_id, !.user = u]
    /\ UNCHANGED <<users, courses, assignments, materials, drafts, tmpfiles,
                   tasks, folders, callers>>

create_draft(u, assignment_id, content, status) ==
    IF OwnAssignmentIdx(assignments, u, assignment_id) = 0
    THEN /\ resp' = Reply("create_draft", 404, "Assignment not found")
         /\ UNCHANGED <<users, courses, assignments, materials, drafts,
                        tmpfiles, tasks, folders, callers>>
    ELSE /\ Len(drafts) < MaxDrafts
         /\ drafts' = Append(drafts,
                [id |-> Len(drafts) + 1, content |-> content,
                 status |-> status, submission_date |-> NULL,
                 user_id |-> u, assignment_id |-> assignment_id])
         /\ resp' = [Reply("create_draft", 200, "") EXCEPT
                        !.draft_id = Len(drafts) + 1]
         /\ UNCHANGED <<users, courses, assignments, materials, tmpfiles,
                        tasks, folders, callers>>

update_draft(u, draft_id, content, status, submission_date) ==
    LET i == OwnDraftIdx(drafts, u, draft_id)
    IN  IF i = 0
        THEN /\ resp' = [Reply("update_draft", 404, "Draft not found") EXCEPT
                            !.draft_id = draft_id, !.user = u]
             /\ UNCHANGED <<users, courses, assignments, materials, drafts,
                            tmpfiles, tasks, folders, callers>>
        ELSE /\ drafts' = [drafts EXCEPT
                  ![i].content = content,
                  ![i].status = status,
                  ![i].submission_date =
                      IF Truthy(submission_date) THEN submission_date
                      ELSE drafts[i].submission_date]
             /\ resp' = [Reply("update_draft", 200, "") EXCEPT
                            !.draft_id = draft_id, !.user = u]
             /\ UNCHANGED <<users, courses, assignments, materials, tmpfiles,
                            tasks, folders, callers>>

----------------------------------------------------------------------------
(* services/ai_generator.py, routes/assignments.py: generation *)

\* What a call of generate_assignment_solution does:
\*   "content": it returns the generated text;
\*   "error_content": its own except branch returns its apology text;
\*   "raise": the call raises (an exception outside its try block, or a
\*            generator replaced by one that fails).
GeneratorOutcomes == {"content", "error_content", "raise"}

generate_assignment_solution(outcome) ==
    CASE outcome = "content" ->
            [raised |-> FALSE, content |-> "generated text"]
      [] outcome = "error_content" ->
            [raised |-> FALSE,
             content |-> "Error generating assignment solution. Please try again later."]
      [] OTHER -> [raised |-> TRUE, content |-> "e"]

generate_assignment_draft(u, assignment_id) ==
    IF OwnAssignmentIdx(assignments, u, assignment_id) = 0
    THEN /\ resp' = Reply("generate_assignment_draft", 404,
                          "Assignment not found")
         /\ UNCHANGED <<users, courses, assignments, materials, drafts,
                        tmpfiles, tasks, folders, callers>>
    ELSE /\ Len(drafts) < MaxDrafts
         /\ drafts' = Append(drafts,
                [id |-> Len(drafts) + 1, content |-> "Generating content...",
                 status |-> "generating", submission_date |-> NULL,
                 user_id |-> u, assignment_id |-> assignment_id])
         /\ tasks' = tasks \cup {Len(drafts) + 1}
         /\ resp' = [Reply("generate_assignment_draft", 200, "") EXCEPT
                        !.draft_id = Len(drafts) + 1, !.user = u]
         /\ UNCHANGED <<users, courses, assignments, materials, tmpfiles,
                        folders, callers>>

\* (mutant) the task's lookup without its filter
TaskDraftIdxFirstRow(ds, draft_id) == First(1..Len(ds))

\* the task's draft lookup, by id alone
TaskDraftIdx(ds, draft_id) ==
    First({i \in 1..Len(ds) : ds[i].id = draft_id})

\* (mutant) the task writing only to a draft that is still generating
DraftAfterGenerationIfGenerating(row, result) ==
    IF row.status # "generating" THEN row
    ELSE IF result.raised
    THEN [row EXCEPT !.content = "Error generating content: e",
                     !.status = "error"]
    ELSE [row EXCEPT !.content = result.content, !.status = "draft"]

\* (mutant) a failure that is only logged
DraftAfterGenerationSilent(row, result) ==
    IF result.raised THEN row
    ELSE [row EXCEPT !.content = result.content, !.status = "draft"]

\* the row the task writes: the try branch, or the except branch
DraftAfterGeneration(row, result) ==
    IF result.raised
    THEN [row EXCEPT !.content = "Error generating content: e",
                     !.status = "error"]
    ELSE [row EXCEPT !.content = result.content, !.status = "draft"]

\* the background task scheduled for draft_id
generate_draft_content(draft_id, outcome) ==
    LET result == generate_assignment_solution(outcome)
        i == TaskDraftIdx(drafts, draft_id)
    IN  /\ draft_id \in tasks
        /\ tasks' = tasks \ {draft_id}
        /\ drafts' = IF i = 0 THEN drafts
                     ELSE [drafts EXCEPT
                             ![i] = DraftAfterGeneration(drafts[i], result)]
        /\ resp' = [Reply("generate_draft_content", 0, outcome) EXCEPT
                       !.draft_id = draft_id,
                       !.replaced = IF i = 0 THEN <<>>
                                    ELSE <<drafts[i].content,
                                           drafts[i].status>>]
        /\ UNCHANGED <<users, courses, assignments, materials, tmpfiles,
                       folders, callers>>

----------------------------------------------------------------------------
(* services/google_drive.py: find_or_create_folder, upload_file *)

\* folders is the list of folder objects of the Drive, each with its id, its
\* name and whether it is in the trash.

Callers == {1, 2}

\* a caller of find_or_create_folder between two calls
IdleCaller == [pc |-> "idle", name |-> "", items |-> {}]

\* the opaque id Drive gives the n-th folder it creates
FolderId(n) == <<"fd1", "fd2", "fd3", "fd4", "fd5", "fd6">>[n]

\* (mutant) the query without its `trashed=false` term
FolderSearchWithTrashed(fs, folder_name) ==
    {fs[i].id : i \in {j \in 1..Len(fs) : fs[j].name = folder_name}}

\* files().list(q = folder type, name = folder_name, not trashed): the ids
\* of the objects found
FolderSearch(fs, folder_name) ==
    {fs[i].id : i \in {j \in 1..Len(fs) :
                         fs[j].name = folder_name /\ ~fs[j].trashed}}

\* (mutant) the folder created whether or not the search found one
FolderMissingAlways(items) == TRUE

\* `if items:` is false
FolderMissing(items) == items = {}

\* files().create(body = folder_name, folder type): the Drive afterwards
FolderCreate(fs, folder_name) ==
    Append(fs, [id |-> FolderId(Len(fs) + 1), name |-> folder_name,
                trashed |-> FALSE])

\* One call run from its search to its return with nothing in between.
\* outcome is "id" (the calls return; the id is that of a folder found, or
\* of the folder created) or "none" (the search or the creation raises and
\* None is returned).  The result is the Drive afterwards and the id.
find_or_create_folder(fs, folder_name, outcome) ==
    LET items == FolderSearch(fs, folder_name)
    IN  IF outcome # "id" THEN [folders |-> fs, id |-> NULL]
        ELSE IF ~FolderMissing(items)
        THEN [folders |-> fs, id |-> CHOOSE f \in items : TRUE]
        ELSE [folders |-> FolderCreate(fs, folder_name),
              id |-> FolderId(Len(fs) + 1)]

\* the search of a call by caller p: the items found are kept for the test
\* that follows; a search that raises ends the call with None
fcf_search(p, folder_name, ok) ==
    /\ callers[p].pc = "idle"
    /\ callers' = [callers EXCEPT ![p] =
                     IF ok THEN [pc |-> "searched", name |-> folder_name,
                                 items |-> FolderSearch(folders, folder_name)]
                     ELSE IdleCaller]
    /\ resp' = IF ok THEN resp
               ELSE [Reply("find_or_create_folder", 0, folder_name) EXCEPT
                        !.user = p, !.folder_id = NULL]
    /\ UNCHANGED <<users, courses, assignments, materials, drafts, tmpfiles,
                   tasks, folders>>

\* the rest of the call: the id of an item found, or the creation of the
\* folder and its id, or None when the creation raises
fcf_finish(p, ok) ==
    /\ callers[p].pc = "searched"
    /\ IF ~FolderMissing(callers[p].items)
       THEN /\ \E f \in callers[p].items :
                 resp' = [Reply("find_or_create_folder", 0, callers[p].name)
                          EXCEPT !.user = p, !.folder_id = f]
            /\ folders' = folders
       ELSE IF ok
       THEN /\ Len(folders) < MaxFolders
            /\ folders' = FolderCreate(folders, callers[p].name)
            /\ resp' = [Reply("find_or_create_folder", 0, callers[p].name)
                        EXCEPT !.user = p, !.folder_id = FolderId(Len(folders) + 1),
                               !.inserted = 1]
       ELSE /\ folders' = folders
            /\ resp' = [Reply("find_or_create_folder", 0, callers[p].name)
                        EXCEPT !.user = p, !.folder_id = NULL]
    /\ callers' = [callers EXCEPT ![p] = IdleCaller]
    /\ UNCHANGED <<users, courses, assignments, materials, drafts, tmpfiles,
                   tasks>>

\* the owner of the Drive moves a folder to the trash
drive_trash(f) ==
    /\ f \in 1..Len(folders)
    /\ ~folders[f].trashed
    /\ folders' = [folders EXCEPT ![f].trashed = TRUE]
    /\ resp' = Reply("drive_trash", 0, folders[f].name)
    /\ UNCHANGED <<users, courses, assignments, materials, drafts, tmpfiles,
                   tasks, callers>>

\* the metadata upload_file sends: the parent folder only when one is given
UploadParents(folder_id) ==
    IF Truthy(folder_id) THEN <<folder_id>> ELSE ABSENT

----------------------------------------------------------------------------
(* services/google_classroom.py: create_submission *)

\* What the environment does to one submission attempt, step by step; a
\* step that is not reached is "na".
\*   render:  "ok" | "build_error" (doc.build raises; generate_pdf removes
\*            its file) | "early_error" (an exception between the creation
\*            of the temporary file and the try block: the file stays)
\*   drive_init, classroom_init:  "ok" | "error" (the constructor raises)
\*   folder:  "id" | "none"
\*   upload:  "file_with_id" | "file_without_id" | "none"
\*   create, attach:  "ok" | "http_error" | "error" (another exception)
\*   turn_in:  "ok_with_id" | "ok_without_id" (the call returns a body that
\*            carries no id) | "http_error" | "error"
Scenario(r, di, f, up, ci, c, a, t) ==
    [render |-> r, drive_init |-> di, folder |-> f, upload |-> up,
     classroom_init |-> ci, create |-> c, attach |-> a, turn_in |-> t]

\* (mutant) the three calls made whatever the earlier ones returned
create_submissionNoStop(sc) ==
    LET result(o) == CASE o = "ok_with_id" -> "id"
                       [] o \in {"ok_without_id", "http_error"} -> "empty"
                       [] OTHER -> "raise"
    IN  [result |-> IF sc.create # "ok" THEN result(sc.create)
                    ELSE IF sc.attach # "ok" THEN result(sc.attach)
                    ELSE result(sc.turn_in),
         calls |-> <<<<"studentSubmissions.create", sc.create>>,
                     <<"studentSubmissions.modifyAttachments", sc.attach>>,
                     <<"studentSubmissions.turnIn", sc.turn_in>>>>]

\* the three Classroom calls: result is "id" (the final submission carries
\* an id), "empty" (an HttpError was caught and {} returned, or the final
\* submission carries no id) or "raise" (another exception propagates);
\* calls lists each call made with its outcome
create_submission(sc) ==
    LET result(o) == CASE o = "ok_with_id" -> "id"
                       [] o \in {"ok_without_id", "http_error"} -> "empty"
                       [] OTHER -> "raise"
        c == <<"studentSubmissions.create", sc.create>>
        a == <<"studentSubmissions.modifyAttachments", sc.attach>>
        t == <<"studentSubmissions.turnIn", sc.turn_in>>
    IN  IF sc.create # "ok"
        THEN [result |-> result(sc.create), calls |-> <<c>>]
        ELSE IF sc.attach # "ok"
        THEN [result |-> result(sc.attach), calls |-> <<c, a>>]
        ELSE [result |-> result(sc.turn_in), calls |-> <<c, a, t>>]

----------------------------------------------------------------------------
(* routes/assignments.py: submit_draft_to_classroom *)

NotFound(detail) == [code |-> 404, detail |-> detail]

\* (mutant) the access-token check made first, as in get_assignments
SubmitPreconditionTokenFirst(u, draft_id) ==
    LET i == OwnDraftIdx(drafts, u, draft_id)
        a == IF i = 0 THEN 0
             ELSE First({k \in 1..Len(assignments) :
                           assignments[k].id = drafts[i].assignment_id})
        c == IF a = 0 THEN 0
             ELSE First({k \in 1..Len(courses) :
                           courses[k].id = assignments[a].course_id})
    IN  IF ~users[u].google_access_token
        THEN [code |-> 403,
              detail |-> "Google authentication required for submission"]
        ELSE IF i = 0 THEN NotFound("Draft not found")
        ELSE IF drafts[i].status = "submitted"
        THEN [code |-> 400, detail |-> "Draft already submitted"]
        ELSE IF a = 0 THEN NotFound("Associated assignment not found")
        ELSE IF c = 0 THEN NotFound("Associated course not found")
        ELSE [code |-> 0, detail |-> ""]

\* the checks made before the try block, in order; code 0 when all pass
SubmitPrecondition(u, draft_id) ==
    LET i == OwnDraftIdx(drafts, u, draft_id)
        a == IF i = 0 THEN 0
             ELSE First({k \in 1..Len(assignments) :
                           assignments[k].id = drafts[i].assignment_id})
        c == IF a = 0 THEN 0
             ELSE First({k \in 1..Len(courses) :
                           courses[k].id = assignments[a].course_id})
    IN  IF i = 0 THEN NotFound("Draft not found")
        ELSE IF drafts[i].status = "submitted"
        THEN [code |-> 400, detail |-> "Draft already submitted"]
        ELSE IF a = 0 THEN NotFound("Associated assignment not found")
        ELSE IF c = 0 THEN NotFound("Associated course not found")
        ELSE IF TokenMissing(u)
        THEN [code |-> 403,
              detail |-> "Google authentication required for submission"]
        ELSE [code |-> 0, detail |-> ""]

\* (mutant) the upload result used whatever it is
UploadIdUsableAlways(upload) == TRUE

\* `not uploaded_file or 'id' not in uploaded_file` is false
UploadIdUsable(upload) == upload = "file_with_id"

SubmissionFolder == "OpenCoder Submissions"

\* (mutant) the submission given up when no folder id is returned
RunSubmissionNeedsFolder(sc) ==
    LET fail(calls) == [ok |-> FALSE, calls |-> calls, rendered |-> TRUE,
                        leaked |-> FALSE]
        pdf == <<<<"generate_pdf", sc.render>>>>
        drive == pdf \o <<<<"GoogleDriveService", sc.drive_init>>>>
        folder_id == find_or_create_folder(folders, SubmissionFolder,
                                           sc.folder).id
        upload == drive \o <<<<"find_or_create_folder", sc.folder>>,
                             <<"upload_file", sc.upload,
                               UploadParents(folder_id)>>>>
        classroom == upload \o <<<<"GoogleClassroomService",
                                   sc.classroom_init>>>>
        cs == create_submission(sc)
    IN  IF sc.render # "ok"
        THEN [ok |-> FALSE, calls |-> pdf, rendered |-> FALSE,
              leaked |-> sc.render = "early_error"]
        ELSE IF sc.drive_init # "ok" THEN fail(drive)
        ELSE IF ~Truthy(folder_id)
        THEN fail(drive \o <<<<"find_or_create_folder", sc.folder>>>>)
        ELSE IF ~UploadIdUsable(sc.upload) THEN fail(upload)
        ELSE IF sc.classroom_init # "ok" THEN fail(classroom)
        ELSE [ok |-> cs.result = "id", calls |-> classroom \o cs.calls,
              rendered |-> TRUE, leaked |-> FALSE]

\* the body of the try block: whether it reaches the return (ok), each call
\* it makes with its outcome, and what becomes of the temporary file
\* (rendered: generate_pdf returned its path; leaked: generate_pdf raised
\* and left its file)
RunSubmission(sc) ==
    LET fail(calls) == [ok |-> FALSE, calls |-> calls, rendered |-> TRUE,
                        leaked |-> FALSE]
        pdf == <<<<"generate_pdf", sc.render>>>>
        drive == pdf \o <<<<"GoogleDriveService", sc.drive_init>>>>
        folder_id == find_or_create_folder(folders, SubmissionFolder,
                                           sc.folder).id
        upload == drive \o <<<<"find_or_create_folder", sc.folder>>,
                             <<"upload_file", sc.upload,
                               UploadParents(folder_id)>>>>
        classroom == upload \o <<<<"GoogleClassroomService",
                                   sc.classroom_init>>>>
        cs == create_submission(sc)
    IN  IF sc.render # "ok"
        THEN [ok |-> FALSE, calls |-> pdf, rendered |-> FALSE,
              leaked |-> sc.render = "early_error"]
        ELSE IF sc.drive_init # "ok" THEN fail(drive)
        ELSE IF ~UploadIdUsable(sc.upload) THEN fail(upload)
        ELSE IF sc.classroom_init # "ok" THEN fail(classroom)
        ELSE [ok |-> cs.result = "id", calls |-> classroom \o cs.calls,
              rendered |-> TRUE, leaked |-> FALSE]

\* (mutant) the status written before the Classroom calls are made
DraftAfterSubmitOnUpload(row, run) ==
    IF \E k \in 1..Len(run.calls) : run.calls[k][1] = "GoogleClassroomService"
    THEN [row EXCEPT !.status = "submitted", !.submission_date = "now"]
    ELSE row

\* step 8, reached only when the try block runs to its end
DraftAfterSubmit(row, run) ==
    IF run.ok
    THEN [row EXCEPT !.status = "submitted", !.submission_date = "now"]
    ELSE row

\* (mutant) the removal at the end of the try block, not in finally
CleanupRunsOnSuccess(run) == run.ok

\* the finally block runs on every exit of the try block
CleanupRuns(run) == TRUE

\* the name tempfile gives the new file: one no existing file has
NewTmp == CHOOSE n \in 1..(MaxTmp + 1) : n \notin tmpfiles

\* the services a submission has constructed: the Drive service after the
\* PDF is rendered, the Classroom service after the upload
SubmitServices(u, calls) ==
    (IF \E k \in 1..Len(calls) : calls[k] = <<"GoogleDriveService", "ok">>
     THEN <<GoogleService("drive", u)>> ELSE <<>>)
    \o (IF \E k \in 1..Len(calls) :
              calls[k] = <<"GoogleClassroomService", "ok">>
        THEN <<GoogleService("classroom", u)>> ELSE <<>>)

submit_draft_to_classroom(u, draft_id, sc) ==
    LET pre == SubmitPrecondition(u, draft_id)
        i == OwnDraftIdx(drafts, u, draft_id)
        run == RunSubmission(sc)
        pdf_path == NewTmp
    IN  IF pre.code # 0
        THEN /\ resp' = [Reply("submit_draft_to_classroom", pre.code,
                               pre.detail) EXCEPT !.draft_id = draft_id,
                                                  !.user = u]
             /\ UNCHANGED <<users, courses, assignments, materials, drafts,
                            tmpfiles, tasks, folders, callers>>
        ELSE /\ run.leaked => Cardinality(tmpfiles) < MaxTmp
             /\ drafts' = [drafts EXCEPT ![i] = DraftAfterSubmit(drafts[i], run)]
             /\ tmpfiles' =
                  IF run.leaked THEN tmpfiles \cup {pdf_path}
                  ELSE IF run.rendered /\ ~CleanupRuns(run)
                  THEN tmpfiles \cup {pdf_path}
                  ELSE tmpfiles
             /\ resp' = [Reply("submit_draft_to_classroom",
                               IF run.ok THEN 200 ELSE 500,
                               IF run.ok THEN "success"
                               ELSE "An error occurred during submission")
                         EXCEPT !.draft_id = draft_id,
                                !.user = u,
                                !.calls = run.calls,
                                !.credentials = SubmitServices(u, run.calls),
                                !.pdf_path = IF run.rendered THEN pdf_path
                                             ELSE 0]
             /\ folders' =
                  IF \E k \in 1..Len(run.calls) :
                        run.calls[k][1] = "find_or_create_folder"
                  THEN find_or_create_folder(folders, SubmissionFolder,
                                             sc.folder).folders
                  ELSE folders
             /\ UNCHANGED <<users, courses, assignments, materials, tasks,
                            callers>>

\* routes/assignments.py: export_draft_to_pdf.  render is what generate_pdf
\* does: "ok" (the file is written and sent; nothing removes it),
\* "build_error" (doc.build raises, generate_pdf removes its file and the
\* exception leaves the handler) or "early_error" (it raises before its
\* try block and its file stays).
export_draft_to_pdf(u, draft_id, render) ==
    LET i == OwnDraftIdx(drafts, u, draft_id)
        a == IF i = 0 THEN 0
             ELSE First({k \in 1..Len(assignments) :
                           assignments[k].id = drafts[i].assignment_id})
    IN  IF i = 0 \/ a = 0
        THEN /\ resp' = [Reply("export_draft_to_pdf", 404,
                               IF i = 0 THEN "Draft not found"
                               ELSE "Assignment not found") EXCEPT
                            !.draft_id = draft_id, !.user = u]
             /\ UNCHANGED <<users, courses, assignments, materials, drafts,
                            tmpfiles, tasks, folders, callers>>
        ELSE /\ render # "build_error" => Cardinality(tmpfiles) < MaxTmp
             /\ tmpfiles' = IF render = "build_error" THEN tmpfiles
                            ELSE tmpfiles \cup {NewTmp}
             /\ resp' = [Reply("export_draft_to_pdf",
                               IF render = "ok" THEN 200 ELSE 500, "") EXCEPT
                            !.draft_id = draft_id, !.user = u,
                            !.calls = <<<<"generate_pdf", render>>>>,
                            !.pdf_path = IF render = "ok" THEN NewTmp ELSE 0]
             /\ UNCHANGED <<users, courses, assignments, materials, drafts,
                            tasks, folders, callers>>

\* the attempts considered: every step failing in each of its ways with the
\* steps before it succeeding, the folder found or not
Scenarios ==
    {Scenario("build_error", "na", "na", "na", "na", "na", "na", "na"),
     Scenario("early_error", "na", "na", "na", "na", "na", "na", "na"),
     Scenario("ok", "error", "na", "na", "na", "na", "na", "na")}
    \cup {Scenario("ok", "ok", f, up, "na", "na", "na", "na") :
            f \in {"id", "none"}, up \in {"file_without_id", "none"}}
    \cup {Scenario("ok", "ok", "id", "file_with_id", "error", "na", "na", "na")}
    \cup {Scenario("ok", "ok", "id", "file_with_id", "ok", c, "na", "na") :
            c \in {"http_error", "error"}}
    \cup {Scenario("ok", "ok", "id", "file_with_id", "ok", "ok", a, "na") :
            a \in {"http_error", "error"}}
    \cup {Scenario("ok", "ok", f, "file_with_id", "ok", "ok", "ok", t) :
            f \in {"id", "none"},
            t \in {"ok_with_id", "ok_without_id", "http_error", "error"}}

----------------------------------------------------------------------------
(* Remote course objects the Classroom API is taken to return *)

CourseIds == {"c1", "c2"}

FieldVal(f, k) ==
    CASE f = "name" -> IF k = 1 THEN "n1" ELSE "n2"
      [] f = "section" -> IF k = 1 THEN "s1" ELSE "s2"
      [] f = "description" -> IF k = 1 THEN "d1" ELSE "d2"
      [] f = "room" -> IF k = 1 THEN "r1" ELSE "r2"

\* the remote course gid carrying the fields of mask, in version k
RemoteCourse(gid, mask, k) ==
    [id |-> gid,
     name |-> IF "name" \in mask THEN FieldVal("name", k) ELSE ABSENT,
     section |-> IF "section" \in mask THEN FieldVal("section", k) ELSE ABSENT,
     description |-> IF "description" \in mask
                     THEN FieldVal("description", k) ELSE ABSENT,
     room |-> IF "room" \in mask THEN FieldVal("room", k) ELSE ABSENT]

\* courses of two ids, with or without a name
CoursePool ==
    {RemoteCourse(gid, mask, 1) : gid \in CourseIds, mask \in {{}, {"name"}}}

\* one course id, each display field present or absent, in two versions
CourseFieldPool ==
    {RemoteCourse("c1", mask, k) :
        mask \in {{}, {"name"}, {"section"}, {"description"}, {"room"},
                  CourseFields},
        k \in 1..2}

----------------------------------------------------------------------------
(* Remote coursework and materials the Classroom API is taken to return *)

AssignmentIds == {"a1", "a2"}
DriveFileIds == {"f1"}

NoDue == [year |-> ABSENT_INT, month |-> ABSENT_INT, day |-> ABSENT_INT]
NoTime == [hours |-> ABSENT_INT, minutes |-> ABSENT_INT]

\* coursework gaid with the given title (or ABSENT), no due date, and the
\* materials list ml when has_ml
RemoteAssignment(gaid, title, has_ml, ml) ==
    [id |-> gaid, title |-> title, description |-> ABSENT,
     has_due_date |-> FALSE, dueDate |-> NoDue,
     has_due_time |-> FALSE, dueTime |-> NoTime,
     has_materials |-> has_ml, materials |-> ml]

AssignmentPool ==
    {RemoteAssignment("a1", ABSENT, FALSE, <<>>),
     RemoteAssignment("a1", "t1", FALSE, <<>>),
     RemoteAssignment("a2", ABSENT, FALSE, <<>>)}

\* coursework gaid with the given dueDate and dueTime objects and nothing
\* else but its id
DatedAssignment(gaid, date, time) ==
    [RemoteAssignment(gaid, ABSENT, FALSE, <<>>) EXCEPT
        !.has_due_date = TRUE, !.dueDate = date,
        !.has_due_time = TRUE, !.dueTime = time]

\* 15 March 2025 and 30 February 2025, and a time of day without minutes
March15 == [year |-> 2025, month |-> 3, day |-> 15]
February30 == [year |-> 2025, month |-> 2, day |-> 30]
TenOClock == [hours |-> 10, minutes |-> ABSENT_INT]

\* coursework without due date, with a valid one, with an impossible one
DueDatePool ==
    UNION {{RemoteAssignment(gaid, ABSENT, FALSE, <<>>),
            DatedAssignment(gaid, March15, TenOClock),
            DatedAssignment(gaid, February30, TenOClock)} :
           gaid \in AssignmentIds}

\* courses carrying nothing but their id
BareCoursePool == {RemoteCourse(gid, {}, 1) : gid \in CourseIds}

\* the object under a variant key: complete, or with no key at all
NoInner == [title |-> ABSENT, link |-> ABSENT, id |-> ABSENT]
FullInner(k) ==
    CASE k = "driveFile" -> [title |-> "Doc", link |-> "url_f1", id |-> "f1"]
      [] k = "youtubeVideo" -> [title |-> "Video", link |-> "url_y1", id |-> "y1"]
      [] k = "link" -> [title |-> "Site", link |-> "url_l1", id |-> ABSENT]
      [] k = "form" -> [title |-> "Quiz", link |-> "url_q1", id |-> ABSENT]

\* the payload carrying the keys of has, complete or empty under each
Payload(has, full) ==
    [has |-> has,
     inner |-> [k \in MaterialKeys |->
                  IF k \in has /\ full THEN FullInner(k) ELSE NoInner]]

\* every combination of variant keys, complete and empty
AllPayloads == {Payload(has, full) : has \in SUBSET MaterialKeys, full \in BOOLEAN}

\* the materials synchronised step by step: a Drive file and a link, both
\* with their id or URL, and a payload with none of the four keys
MaterialPool ==
    {Payload({"driveFile"}, TRUE), Payload({"link"}, TRUE), Payload({}, FALSE)}

Downloads == [DriveFileIds -> {"text1", DL_FAIL}]
\* a download that succeeds, fails, or yields bytes that do not decode
DownloadOutcomes == [DriveFileIds -> {"text1", DL_FAIL, DL_UNDECODABLE}]

\* dated coursework: a1 with an impossible date and a Drive file and a link
\* attached, a1 and a2 with a valid date, a2 with an impossible date
IsolationPool ==
    {[DatedAssignment("a1", February30, TenOClock) EXCEPT
         !.has_materials = TRUE,
         !.materials = <<Payload({"driveFile"}, TRUE), Payload({"link"}, TRUE)>>],
     DatedAssignment("a1", March15, TenOClock),
     DatedAssignment("a2", February30, TenOClock),
     [DatedAssignment("a2", March15, TenOClock) EXCEPT !.title = "t1"]}
NoDownloads == [f \in DriveFileIds |-> DL_FAIL]

\* one attachment under key k with the given title, link and id
Attachment(k, title, link, id) ==
    [has |-> {k},
     inner |-> [j \in MaterialKeys |->
                  IF j = k THEN [title |-> title, link |-> link, id |-> id]
                  ELSE NoInner]]

\* the attachments whose content is followed: the Drive file f1 under two
\* titles, a Drive file without id, and a video that carries the id and
\* the link of the Drive file
ContentPool ==
    {Attachment("driveFile", "Doc", "url_f1", "f1"),
     Attachment("driveFile", "Doc v2", "url_f1", "f1"),
     Attachment("driveFile", "Doc", "url_f1", ABSENT),
     Attachment("youtubeVideo", "Video", "url_f1", "f1")}

\* a download that yields one of two texts or an empty text, fails, or
\* yields bytes that do not decode
ContentDownloads ==
    [DriveFileIds -> {"text1", "text2", "", DL_FAIL, DL_UNDECODABLE}]

----------------------------------------------------------------------------
(* Initial state: two registered users without Google tokens, empty tables *)

Init ==
    /\ users = [u \in Users |-> [google_access_token |-> FALSE,
                                  google_refresh_token |-> FALSE,
                                  token_expiry |-> NULL]]
    /\ courses = <<>>
    /\ assignments = <<>>
    /\ materials = <<>>
    /\ drafts = <<>>
    /\ tmpfiles = {}
    /\ tasks = {}
    /\ folders = <<>>
    /\ callers = [p \in Callers |-> IdleCaller]
    /\ resp = Reply("none", 0, "")

\* course synchronisation of both users
NextCourses ==
    \/ \E u \in Users : google_callback_post(u)
    \/ \E u \in Users, gl \in SeqsUpTo(CoursePool, MaxList) : get_courses(u, gl)

SpecCourses == Init /\ [][NextCourses]_vars

\* course synchronisation of one user, field by field
NextCourseFields ==
    \/ google_callback_post(1)
    \/ \E gl \in SeqsUpTo(CourseFieldPool, MaxList) : get_courses(1, gl)

SpecCourseFields == Init /\ [][NextCourseFields]_vars

\* assignment synchronisation of the courses of user 1
NextAssignments ==
    \/ google_callback_post(1)
    \/ \E gl \in SeqsUpTo(BareCoursePool, MaxList) : get_courses(1, gl)
    \/ \E u \in Users, c \in 1..2, gl \in SeqsUpTo(AssignmentPool, MaxList) :
          get_assignments(u, c, gl, NoDownloads)

SpecAssignments == Init /\ [][NextAssignments]_vars

\* a fetched list names each remote object once
DistinctIds(gl) == \A j, k \in 1..Len(gl) : gl[j].id = gl[k].id => j = k

\* coursework of one course of user 1, with and without due dates
NextDueDates ==
    \/ google_callback_post(1)
    \/ get_courses(1, <<RemoteCourse("c1", {}, 1)>>)
    \/ \E gl \in {g \in SeqsUpTo(DueDatePool, MaxList) : DistinctIds(g)} :
          get_assignments(1, 1, gl, NoDownloads)

SpecDueDates == Init /\ [][NextDueDates]_vars

\* material synchronisation of two assignments of one course
NextMaterials ==
    \/ google_callback_post(1)
    \/ get_courses(1, <<RemoteCourse("c1", {}, 1)>>)
    \/ \E gaid \in AssignmentIds :
          get_assignments(1, 1, <<RemoteAssignment(gaid, ABSENT, FALSE, <<>>)>>,
                          NoDownloads)
    \/ \E gaid \in AssignmentIds, ml \in SeqsUpTo(MaterialPool, MaxList) :
          get_assignments(1, 1, <<RemoteAssignment(gaid, ABSENT, TRUE, ml)>>,
                          NoDownloads)
    \/ \E dl \in Downloads :
          get_assignments(1, 1,
              <<RemoteAssignment("a1", ABSENT, TRUE,
                                 <<Payload({"driveFile"}, TRUE)>>)>>, dl)

SpecMaterials == Init /\ [][NextMaterials]_vars

\* coursework lists in which some items fail to compose their due date or
\* to download their Drive file
NextIsolation ==
    \/ google_callback_post(1)
    \/ \E gl \in {g \in SeqsUpTo(BareCoursePool, MaxList) : DistinctIds(g)} :
          get_courses(1, gl)
    \/ \E gl \in {g \in SeqsUpTo(IsolationPool, MaxList) : DistinctIds(g)},
          dl \in DownloadOutcomes :
          get_assignments(1, 1, gl, dl)

SpecIsolation == Init /\ [][NextIsolation]_vars

\* repeated syncs of one coursework with one attachment at a time
NextContent ==
    \/ google_callback_post(1)
    \/ get_courses(1, <<RemoteCourse("c1", {}, 1)>>)
    \/ \E m \in ContentPool, dl \in ContentDownloads :
          get_assignments(1, 1, <<RemoteAssignment("a1", ABSENT, TRUE, <<m>>)>>,
                          dl)

SpecContent == Init /\ [][NextContent]_vars

FolderNames == {SubmissionFolder, "Notes"}

\* one caller making call after call, and the owner of the Drive trashing
\* folders between the calls
NextFolders ==
    \/ \E n \in FolderNames, ok \in BOOLEAN : fcf_search(1, n, ok)
    \/ \E ok \in BOOLEAN : fcf_finish(1, ok)
    \/ \E f \in {g \in 1..MaxFolders : callers[1].pc = "idle"} : drive_trash(f)

SpecFolders == Init /\ [][NextFolders]_vars

\* two callers whose calls overlap
NextFolderRace ==
    \/ \E p \in Callers, n \in FolderNames, ok \in BOOLEAN :
          fcf_search(p, n, ok)
    \/ \E p \in Callers, ok \in BOOLEAN : fcf_finish(p, ok)

SpecFolderRace == Init /\ [][NextFolderRace]_vars

\* drafts of user 1 on one mirrored assignment, submitted by their owner
\* under every scenario
NextSubmit ==
    \/ google_callback_post(1)
    \/ get_courses(1, <<RemoteCourse("c1", {}, 1)>>)
    \/ get_assignments(1, 1, <<RemoteAssignment("a1", ABSENT, FALSE, <<>>)>>,
                       NoDownloads)
    \/ \E u \in Users : create_draft(u, 1, "text", "draft")
    \/ \E d \in 1..MaxDrafts : update_draft(1, d, "edited", "draft", NULL)
    \/ \E d \in 1..MaxDrafts, sc \in Scenarios :
          submit_draft_to_classroom(1, d, sc)

SpecSubmit == Init /\ [][NextSubmit]_vars

\* the same submissions of drafts that are not edited in between
NextSubmitSteps ==
    \/ google_callback_post(1)
    \/ get_courses(1, <<RemoteCourse("c1", {}, 1)>>)
    \/ get_assignments(1, 1, <<RemoteAssignment("a1", ABSENT, FALSE, <<>>)>>,
                       NoDownloads)
    \/ create_draft(1, 1, "text", "draft")
    \/ \E d \in 1..MaxDrafts, sc \in Scenarios :
          submit_draft_to_classroom(1, d, sc)

SpecSubmitSteps == Init /\ [][NextSubmitSteps]_vars

\* every operation that calls Classroom or Drive: the two syncs, the second
\* with a Drive file to download, and the submission in each of its ways
NextRemote ==
    \/ google_callback_post(1)
    \/ get_courses(1, <<RemoteCourse("c1", {}, 1)>>)
    \/ \E dl \in ContentDownloads :
          get_assignments(1, 1,
              <<RemoteAssignment("a1", ABSENT, TRUE,
                    <<Attachment("driveFile", "Doc", "url_f1", "f1")>>)>>, dl)
    \/ create_draft(1, 1, "text", "draft")
    \/ \E d \in 1..MaxDrafts, sc \in Scenarios :
          submit_draft_to_classroom(1, d, sc)

SpecRemote == Init /\ [][NextRemote]_vars

\* a submission that succeeds and one whose upload fails
OrderScenarios ==
    {Scenario("ok", "ok", "id", "file_with_id", "ok", "ok", "ok", "ok_with_id"),
     Scenario("ok", "ok", "id", "none", "na", "na", "na", "na")}

\* the same drafts, asked for by either user, with or without access token
NextSubmitOrder ==
    \/ \E u \in Users : google_callback_post(u)
    \/ \E u \in Users : get_courses(u, <<RemoteCourse("c1", {}, 1)>>)
    \/ \E u \in Users :
          get_assignments(u, 1, <<RemoteAssignment("a1", ABSENT, FALSE, <<>>)>>,
                          NoDownloads)
    \/ \E u \in Users : create_draft(u, 1, "text", "draft")
    \/ \E u \in Users, d \in 1..MaxDrafts, st \in {"draft", "submitted"},
          date \in {NULL, "d0"} :
          update_draft(u, d, "edited", st, date)
    \/ \E u \in Users, d \in 1..MaxDrafts, sc \in OrderScenarios :
          submit_draft_to_classroom(u, d, sc)

SpecSubmitOrder == Init /\ [][NextSubmitOrder]_vars

\* drafts generated for one mirrored assignment of user 1, edited and
\* submitted while their tasks are pending or done
NextGenerate ==
    \/ google_callback_post(1)
    \/ get_courses(1, <<RemoteCourse("c1", {}, 1)>>)
    \/ get_assignments(1, 1, <<RemoteAssignment("a1", ABSENT, FALSE, <<>>)>>,
                       NoDownloads)
    \/ \E u \in Users : generate_assignment_draft(u, 1)
    \/ \E d \in 1..MaxDrafts, o \in GeneratorOutcomes :
          generate_draft_content(d, o)
    \/ \E d \in 1..MaxDrafts, st \in {"draft", "submitted"} :
          update_draft(1, d, "edited", st, NULL)
    \/ \E d \in 1..MaxDrafts, sc \in OrderScenarios :
          submit_draft_to_classroom(1, d, sc)

SpecGenerate == Init /\ [][NextGenerate]_vars

\* user 1 mirrors a course and its coursework; both users write, generate,
\* edit and submit drafts on that assignment
NextOwnership ==
    \/ google_callback_post(1)
    \/ get_courses(1, <<RemoteCourse("c1", {}, 1)>>)
    \/ get_assignments(1, 1, <<RemoteAssignment("a1", ABSENT, FALSE, <<>>)>>,
                       NoDownloads)
    \/ \E u \in Users : create_draft(u, 1, "text", "draft")
    \/ \E u \in Users : generate_assignment_draft(u, 1)
    \/ \E d \in 1..MaxDrafts : generate_draft_content(d, "content")
    \/ \E u \in Users, d \in 1..MaxDrafts :
          update_draft(u, d, "edited", "draft", NULL)
    \/ \E u \in Users, d \in 1..MaxDrafts :
          submit_draft_to_classroom(u, d,
              Scenario("ok", "ok", "id", "file_with_id", "ok", "ok", "ok",
                       "ok_with_id"))

SpecOwnership == Init /\ [][NextOwnership]_vars

\* the drafts of user 1 asked for by either user, under ids that exist and
\* one that does not
NextDraftAccess ==
    \/ \E u \in Users : google_callback_post(u)
    \/ get_courses(1, <<RemoteCourse("c1", {}, 1)>>)
    \/ get_assignments(1, 1, <<RemoteAssignment("a1", ABSENT, FALSE, <<>>)>>,
                       NoDownloads)
    \/ create_draft(1, 1, "text", "draft")
    \/ \E u \in Users, d \in 1..(MaxDrafts + 1) : get_draft(u, d)
    \/ \E u \in Users, d \in 1..(MaxDrafts + 1) :
          update_draft(u, d, "edited", "draft", NULL)
    \/ \E u \in Users, d \in 1..(MaxDrafts + 1),
          r \in {"ok", "build_error"} : export_draft_to_pdf(u, d, r)
    \/ \E u \in Users, d \in 1..(MaxDrafts + 1) :
          submit_draft_to_classroom(u, d,
              Scenario("ok", "ok", "id", "file_with_id", "ok", "ok", "ok",
                       "ok_with_id"))

SpecDraftAccess == Init /\ [][NextDraftAccess]_vars

\* the draft endpoints with the status values a client can send: the schema
\* takes any string; "approved" is the value the model's column comment names
StatusInputs == {"draft", "submitted", "approved"}

NextLifecycle ==
    \/ google_callback_post(1)
    \/ get_courses(1, <<RemoteCourse("c1", {}, 1)>>)
    \/ get_assignments(1, 1, <<RemoteAssignment("a1", ABSENT, FALSE, <<>>)>>,
                       NoDownloads)
    \/ \E st \in StatusInputs : create_draft(1, 1, "text", st)
    \/ generate_assignment_draft(1, 1)
    \/ \E d \in 1..MaxDrafts, o \in {"content", "raise"} :
          generate_draft_content(d, o)
    \/ \E d \in 1..MaxDrafts, st \in StatusInputs :
          update_draft(1, d, "edited", st, NULL)
    \/ \E d \in 1..MaxDrafts :
          submit_draft_to_classroom(1, d,
             Scenario("ok", "ok", "id", "file_with_id", "ok", "ok", "ok",
                      "ok_with_id"))

SpecLifecycle == Init /\ [][NextLifecycle]_vars

----------------------------------------------------------------------------
(* Claims about the submission of a draft *)

SUBMIT == "submit_draft_to_classroom"

\* the outcome of the named call in a call log, "na" if it was not made
Outcome(calls, name) ==
    IF \E k \in 1..Len(calls) : calls[k][1] = name
    THEN calls[CHOOSE k \in 1..Len(calls) : calls[k][1] = name][2]
    ELSE "na"

ClassroomCalls == {"studentSubmissions.create",
                   "studentSubmissions.modifyAttachments",
                   "studentSubmissions.turnIn"}

\* C1: when the PDF renders, the upload returns a file id and the three
\* Classroom calls (create, attach, turn in) all return without error, the
\* draft has status "submitted" and its submission date is set.
C1_SuccessMarksSubmitted ==
    (/\ resp.op = SUBMIT
     /\ Outcome(resp.calls, "generate_pdf") = "ok"
     /\ Outcome(resp.calls, "upload_file") = "file_with_id"
     /\ Outcome(resp.calls, "studentSubmissions.create") = "ok"
     /\ Outcome(resp.calls, "studentSubmissions.modifyAttachments") = "ok"
     /\ Outcome(resp.calls, "studentSubmissions.turnIn")
            \in {"ok_with_id", "ok_without_id"})
    => \E i \in 1..Len(drafts) :
          /\ drafts[i].id = resp.draft_id
          /\ drafts[i].status = "submitted"
          /\ drafts[i].submission_date # NULL

\* a submission whose calls all succeed and whose turn-in returns an id
C1_Witness ==
    /\ resp.op = SUBMIT
    /\ resp.status_code = 200
    /\ Outcome(resp.calls, "studentSubmissions.turnIn") = "ok_with_id"
    /\ \E i \in 1..Len(drafts) :
          drafts[i].id = resp.draft_id /\ drafts[i].status = "submitted"

\* a step of the submission failed: rendering, the Drive upload, or one of
\* the Classroom calls
StepFailed(calls) ==
    \/ Outcome(calls, "generate_pdf") \in {"build_error", "early_error"}
    \/ Outcome(calls, "GoogleDriveService") = "error"
    \/ Outcome(calls, "upload_file") \in {"none", "file_without_id"}
    \/ Outcome(calls, "GoogleClassroomService") = "error"
    \/ \E c \in ClassroomCalls : Outcome(calls, c) \in {"http_error", "error"}

\* C2: a submission in which any step fails answers with the one submission
\* failure (500) and leaves every Draft row, status, content and
\* submission date included, exactly as it was.
C2_FailureLeavesDraft ==
    [][(resp'.op = SUBMIT /\ StepFailed(resp'.calls))
       => /\ resp'.status_code = 500
          /\ resp'.detail = "An error occurred during submission"
          /\ drafts' = drafts]_vars

\* a failed Classroom call on a draft that was submitted before, edited and
\* reset: it still carries its content and its earlier submission date
C2_Witness ==
    /\ resp.op = SUBMIT
    /\ resp.status_code = 500
    /\ Outcome(resp.calls, "studentSubmissions.modifyAttachments")
           = "http_error"
    /\ \E i \in 1..Len(drafts) :
          /\ drafts[i].id = resp.draft_id
          /\ drafts[i].status = "draft"
          /\ drafts[i].content = "edited"
          /\ drafts[i].submission_date = "now"

\* C3: when the upload fails or returns no file id, no Classroom call is
\* made and the Draft rows are unchanged.
C3_UploadFailureStops ==
    [][(/\ resp'.op = SUBMIT
        /\ Outcome(resp'.calls, "upload_file") \in {"none", "file_without_id"})
       => /\ \A k \in 1..Len(resp'.calls) :
                resp'.calls[k][1] \notin
                    ClassroomCalls \cup {"GoogleClassroomService"}
          /\ resp'.status_code = 500
          /\ drafts' = drafts]_vars

\* an upload that returned a file without an id
C3_Witness ==
    /\ resp.op = SUBMIT
    /\ Outcome(resp.calls, "upload_file") = "file_without_id"
    /\ \E i \in 1..Len(drafts) :
          drafts[i].id = resp.draft_id /\ drafts[i].status = "draft"

C5_PreconditionOrder ==
    [][resp'.op = SUBMIT
       => LET u == resp'.user
              own == {i \in 1..Len(drafts) :
                        drafts[i].id = resp'.draft_id /\ drafts[i].user_id = u}
              d == drafts[CHOOSE i \in own : TRUE]
              as == {a \in 1..Len(assignments) :
                        assignments[a].id = d.assignment_id}
              resolvable ==
                  \E a \in as : \E c \in 1..Len(courses) :
                      courses[c].id = assignments[a].course_id
              expected ==
                  IF own = {} THEN 404
                  ELSE IF d.status = "submitted" THEN 400
                  ELSE IF ~resolvable THEN 404
                  ELSE IF ~users[u].google_access_token THEN 403
                  ELSE 0
          IN  IF expected # 0
              THEN /\ resp'.status_code = expected
                   /\ resp'.calls = <<>>
                   /\ resp'.pdf_path = 0
                   /\ drafts' = drafts
                   /\ tmpfiles' = tmpfiles
              ELSE resp'.calls # <<>>]_vars

\* a user without an access token asks for another user's submitted draft
\* and is told it was not found
C5_Witness ==
    /\ resp.op = SUBMIT
    /\ resp.status_code = 404
    /\ resp.user \in Users
    /\ ~users[resp.user].google_access_token
    /\ \E i \in 1..Len(drafts) :
          /\ drafts[i].id = resp.draft_id
          /\ drafts[i].user_id # resp.user
          /\ drafts[i].status = "submitted"

----------------------------------------------------------------------------
(* Claims about course synchronisation *)

\* C6: after any sequence of completed course syncs no two Course rows share
\* (google_course_id, user_id), every remote course of a completed sync has
\* its row, and a second sync with the identical remote list inserts no row.
C6_CourseSyncIdempotent ==
    /\ \A i, j \in 1..Len(courses) :
          (/\ courses[i].google_course_id = courses[j].google_course_id
           /\ courses[i].user_id = courses[j].user_id) => i = j
    /\ \A u \in Users, gl \in SeqsUpTo(CoursePool, MaxList) :
          LET once == SyncCourses(courses, u, gl)
              twice == SyncCourses(once, u, gl)
          IN  users[u].google_access_token =>
              /\ Len(twice) = Len(once)
              /\ \A k \in 1..Len(gl) :
                    Cardinality(CourseRows(once, u, gl[k].id)) = 1

\* a sync of two courses by a user has completed that found both mirrored,
\* while the other user mirrors the same remote ids in rows of its own
C6_Witness ==
    /\ resp.op = "get_courses" /\ resp.status_code = 200
    /\ resp.inserted = 0 /\ resp.updated = 2
    /\ Len(courses) = 4

\* C9: on an already-mirrored course the update sets each of name, section,
\* description and room to the remote value when the remote record carries
\* the field and leaves the stored value when it does not; two sequential
\* fetches of one course id with a changed name leave exactly one row, whose
\* name is that of the second fetch.
C9_CourseUpdateFields ==
    /\ \A u \in Users, g \in CourseFieldPool :
          LET i == CourseIdx(courses, u, g.id)
              after == UpsertCourse(courses, u, g)
          IN  (users[u].google_access_token /\ i # 0) =>
                /\ Len(after) = Len(courses)
                /\ \A f \in CourseFields :
                      after[i][f] = IF g[f] # ABSENT THEN g[f]
                                    ELSE courses[i][f]
                /\ after[i].id = courses[i].id
                /\ after[i].google_course_id = courses[i].google_course_id
                /\ after[i].user_id = courses[i].user_id
                /\ \A j \in 1..Len(courses) : j # i => after[j] = courses[j]
    /\ \A u \in Users, g1 \in CourseFieldPool, g2 \in CourseFieldPool :
          (/\ users[u].google_access_token
           /\ g1.name # ABSENT /\ g2.name # ABSENT /\ g1.name # g2.name) =>
             LET cs2 == SyncCourses(SyncCourses(courses, u, <<g1>>), u, <<g2>>)
                 rows == CourseRows(cs2, u, g1.id)
             IN  /\ Cardinality(rows) = 1
                 /\ \A i \in rows : cs2[i].name = g2.name

\* a later fetch has renamed the mirrored course and, not carrying the other
\* fields, left their stored values
C9_Witness ==
    /\ resp.op = "get_courses" /\ resp.updated >= 1
    /\ Len(courses) = 1
    /\ courses[1].name = "n2"
    /\ courses[1].section = "s1"
    /\ courses[1].room = "r1"

----------------------------------------------------------------------------
(* Claims about assignment and material synchronisation *)

\* C7: after any sequence of completed assignment syncs no two Assignment
\* rows share (google_assignment_id, course_id); every coursework id of a
\* completed sync has exactly one row in the course, and re-running the sync
\* with the identical input inserts no row.
C7_AssignmentRowsUnique ==
    /\ \A i, j \in 1..Len(assignments) :
          (/\ assignments[i].google_assignment_id
                = assignments[j].google_assignment_id
           /\ assignments[i].course_id = assignments[j].course_id) => i = j
    /\ \A u \in Users, c \in 1..Len(courses),
          gl \in SeqsUpTo(AssignmentPool, MaxList) :
          LET st == [as |-> assignments, ms |-> materials]
              once == SyncAssignments(st, u, c, gl, NoDownloads)
              twice == SyncAssignments(once, u, c, gl, NoDownloads)
          IN  (users[u].google_access_token /\ OwnCourseIdx(courses, u, c) # 0)
              => /\ Len(twice.as) = Len(once.as)
                 /\ \A k \in 1..Len(gl) :
                       Cardinality(AssignmentRows(once.as, c, gl[k].id)) = 1

\* a sync of two coursework items has completed that found both mirrored,
\* while the same remote ids are mirrored in the user's other course too
C7_Witness ==
    /\ resp.op = "get_assignments" /\ resp.status_code = 200
    /\ resp.inserted = 0 /\ resp.updated = 2
    /\ Len(assignments) = 4

\* a material whose classification carries a remote id or a URL
Keyed(m) ==
    \/ Truthy(Classify(m, NoDownloads).google_material_id)
    \/ Truthy(Classify(m, NoDownloads).url)

AllKeyed(m_input) ==
    \A k \in DOMAIN m_input :
       \A n \in 1..Len(m_input[k][3]) : Keyed(m_input[k][3][n])

\* C8 (as claimed): when a completed material sync is followed by a sync of
\* the same coursework with the identical lists of materials, each material
\* carrying a remote id or a URL, the second sync inserts no Material row.
C8_KeyedMaterialSyncIdempotent ==
    [][(/\ resp.op = "get_assignments" /\ resp.status_code = 200
        /\ resp'.op = "get_assignments" /\ resp'.status_code = 200
        /\ resp.m_input # <<>>
        /\ resp'.m_input = resp.m_input
        /\ AllKeyed(resp.m_input))
       => resp'.m_inserted = 0]_vars

\* the first key of the fixed order the payload carries, 0 when it has none
KeyOrder == <<"driveFile", "youtubeVideo", "link", "form">>
TypeOrder == <<"drive_file", "youtube", "link", "form">>
FirstKey(m) == First({k \in 1..4 : KeyOrder[k] \in m.has})

\* C10: a payload is classified by the first key it carries in the order
\* driveFile, youtubeVideo, link, form; a payload with none of the four is
\* classified unknown with the default title, no URL and no remote id, and
\* process_materials stores it as a new row with these values.
C10_MaterialClassification ==
    /\ \A m \in AllPayloads, dl \in Downloads :
          LET c == Classify(m, dl)
          IN  IF FirstKey(m) # 0
              THEN c.type = TypeOrder[FirstKey(m)]
              ELSE /\ c.type = "unknown"
                   /\ c.title = "Untitled Material"
                   /\ c.url = NULL
                   /\ c.google_material_id = NULL
    /\ \A a \in 1..Len(assignments), dl \in Downloads :
          LET after == process_materials(materials, <<Payload({}, FALSE)>>, a, dl)
              row == after[Len(after)]
          IN  /\ Len(after) = Len(materials) + 1
              /\ row.type = "unknown"
              /\ row.title = "Untitled Material"
              /\ row.url = NULL
              /\ row.google_material_id = NULL
              /\ row.assignment_id = a
    /\ \A i \in 1..Len(materials) :
          /\ materials[i].type \in {"drive_file", "youtube", "link", "form",
                                    "unknown"}
          /\ materials[i].type = "unknown" =>
                /\ materials[i].title = "Untitled Material"
                /\ materials[i].url = NULL
                /\ materials[i].google_material_id = NULL

\* a sync has stored a payload with none of the four keys beside a Drive
\* file and a link
C10_Witness ==
    /\ resp.op = "get_assignments" /\ resp.m_inserted >= 1
    /\ \E i, j, k \in 1..Len(materials) :
          /\ materials[i].type = "unknown"
          /\ materials[j].type = "drive_file"
          /\ materials[k].type = "link"

----------------------------------------------------------------------------
(* Claims about due dates *)

\* C11: a sync whose coursework carries due-date components that form an
\* impossible calendar date completes, and the Assignment row of that
\* coursework then has a null due date, whether the row was created by the
\* sync or was there before.  (The item meant is the last of the fetched
\* list that carries a due date for its coursework id.)
C11_ImpossibleDateStoresNull ==
    (resp.op = "get_assignments" /\ resp.due_log # <<>>)
    => /\ resp.status_code = 200
       /\ \A k \in 1..Len(resp.due_log) :
             (/\ resp.due_log[k][3] = "ValueError"
              /\ \A j \in (k + 1)..Len(resp.due_log) :
                    resp.due_log[j][2] # resp.due_log[k][2])
             => \A i \in AssignmentRows(assignments, resp.due_log[k][1],
                                        resp.due_log[k][2]) :
                   assignments[i].due_date = NoDate

\* a sync that created a row from coursework dated 30 February
C11_Witness ==
    /\ resp.op = "get_assignments"
    /\ resp.status_code = 200
    /\ resp.inserted = 1
    /\ resp.due_log = <<<<1, "a1", "ValueError">>>>
    /\ \E i \in 1..Len(assignments) :
          /\ assignments[i].google_assignment_id = "a1"
          /\ assignments[i].due_date = NoDate

----------------------------------------------------------------------------
(* Claims about content generation *)

TASK == "generate_draft_content"

\* C12: when the generator call of the task fails, the task leaves the
\* Draft in one step with status "error" and the error text as its content;
\* and whatever the generator did, the Draft does not have status
\* "generating" when the task has run.
C12_GenerationFailureMarksError ==
    [][resp'.op = TASK
       => LET d == resp'.draft_id
          IN  /\ d \in tasks /\ d \notin tasks'
              /\ drafts'[d].status # "generating"
              /\ resp'.detail = "raise"
                 => drafts' = [drafts EXCEPT
                        ![d].status = "error",
                        ![d].content = "Error generating content: e"]]_vars

\* the task of a draft still "generating" has run with a failing generator
C12_Witness ==
    /\ resp.op = TASK
    /\ resp.detail = "raise"
    /\ resp.draft_id \notin tasks
    /\ drafts[resp.draft_id].status = "error"
    /\ drafts[resp.draft_id].content = "Error generating content: e"

\* C13: generate_assignment_draft appends one Draft owned by the caller with
\* status "generating" and answers with it while its task is still to run;
\* the task, when its generator returns content, writes that content and
\* the status "draft" to that same row and to no other.
C13_PlaceholderThenSameRow ==
    [][/\ (resp'.op = "generate_assignment_draft" /\ resp'.status_code = 200)
          => /\ drafts' = Append(drafts, drafts'[Len(drafts')])
             /\ resp'.draft_id = Len(drafts')
             /\ drafts'[Len(drafts')].id = resp'.draft_id
             /\ drafts'[Len(drafts')].user_id = resp'.user
             /\ drafts'[Len(drafts')].status = "generating"
             /\ resp'.draft_id \in tasks' \ tasks
       /\ (resp'.op = TASK /\ resp'.detail = "content")
          => drafts' = [drafts EXCEPT
                 ![resp'.draft_id].content = "generated text",
                 ![resp'.draft_id].status = "draft"]]_vars

\* the task of the second generated draft has completed while the first
\* draft is still waiting for its own
C13_Witness ==
    /\ resp.op = TASK
    /\ resp.detail = "content"
    /\ resp.draft_id = 2
    /\ drafts[2].status = "draft"
    /\ drafts[2].content = "generated text"
    /\ drafts[1].status = "generating"
    /\ tasks = {1}

----------------------------------------------------------------------------
(* Claims about the Draft rows *)

\* C14: every Draft's assignment_id names an Assignment row whose user_id
\* is the Draft's user_id, however the Draft was created and whatever was
\* done with it since.
C14_DraftOnOwnAssignment ==
    \A i \in 1..Len(drafts) :
        \E a \in 1..Len(assignments) :
            /\ assignments[a].id = drafts[i].assignment_id
            /\ assignments[a].user_id = drafts[i].user_id

\* the owner of the assignment has a written draft, submitted, and a
\* generated one; the other user has just asked for a draft on it
C14_Witness ==
    /\ Len(drafts) = 2
    /\ \E i \in 1..2 : drafts[i].status = "submitted"
    /\ \E i \in 1..2 : drafts[i].content = "generated text"
    /\ resp.op = "generate_assignment_draft"
    /\ resp.status_code = 404

----------------------------------------------------------------------------
(* Claims about a failing item in a fetched list *)

----------------------------------------------------------------------------
(* Claims about a caller without access token *)

SyncOrSubmit == {"get_courses", "get_assignments", SUBMIT}

\* the request answered last left every table and the local files as they
\* were and made no renderer, Drive or Classroom call
NoEffect ==
    /\ resp'.calls = <<>>
    /\ resp'.pdf_path = 0
    /\ <<courses', assignments', materials', drafts', tmpfiles', tasks'>>
         = <<courses, assignments, materials, drafts, tmpfiles, tasks>>

\* C16 (as stated): a course sync, an assignment sync or a submission asked
\* for by a user without access token is answered auth-required (403), and
\* makes no remote call and writes no row.
C16_NoTokenIsAuthRequired ==
    [][(/\ resp'.op \in SyncOrSubmit
        /\ resp'.user \in Users
        /\ ~users[resp'.user].google_access_token)
       => (resp'.status_code = 403 /\ NoEffect)]_vars

\* C16 (amended): a course sync or an assignment sync asked for by a user
\* without access token is answered auth-required (403), whether or not the
\* course exists; a submission asked for by such a user is answered
\* auth-required only when the draft is the caller's, is not yet submitted
\* and resolves to its assignment and course, and otherwise not-found or
\* conflict as the earlier check decides; in every case no remote call is
\* made and no row is written.
C16_NoTokenRejectedWithoutEffect ==
    [][(/\ resp'.op \in SyncOrSubmit
        /\ resp'.user \in Users
        /\ ~users[resp'.user].google_access_token)
       => /\ NoEffect
          /\ resp'.op # SUBMIT => resp'.status_code = 403
          /\ resp'.op = SUBMIT
             => LET own == {i \in 1..Len(drafts) :
                              /\ drafts[i].id = resp'.draft_id
                              /\ drafts[i].user_id = resp'.user}
                IN  /\ own = {} => resp'.status_code = 404
                    /\ \A i \in own :
                          resp'.status_code =
                             IF drafts[i].status = "submitted" THEN 400
                             ELSE IF \E a \in 1..Len(assignments) :
                                       assignments[a].id
                                          = drafts[i].assignment_id
                             THEN 403 ELSE 404]_vars

\* a user without access token asks for the coursework of another user's
\* course, which already has rows, and is told to authenticate
C16_Witness ==
    /\ resp.op = "get_assignments"
    /\ resp.status_code = 403
    /\ resp.user \in Users
    /\ ~users[resp.user].google_access_token
    /\ \E c \in 1..Len(courses) : courses[c].user_id # resp.user
    /\ Len(assignments) > 0
    /\ Len(drafts) > 0

----------------------------------------------------------------------------
(* Claims about the draft's status and submission date *)

LifecycleStates == {"draft", "generating", "error", "submitted"}

\* draft -> generating -> draft or error -> submitted
LifecycleSteps ==
    { <<"draft", "generating">>, <<"generating", "draft">>,
      <<"generating", "error">>, <<"error", "generating">>,
      <<"draft", "submitted">>, <<"error", "submitted">> }

\* C17: a Draft's status is always one of draft, generating, error and
\* submitted; a new Draft starts as draft or generating, and every change of
\* an existing Draft's status is a step of the lifecycle.
C17_StatusFollowsLifecycle ==
    [][\A d \in 1..Len(drafts') :
          /\ drafts'[d].status \in LifecycleStates
          /\ d > Len(drafts) => drafts'[d].status \in {"draft", "generating"}
          /\ (d <= Len(drafts) /\ drafts'[d].status # drafts[d].status)
             => <<drafts[d].status, drafts'[d].status>> \in LifecycleSteps]_vars

\* an update has just changed the status of an existing draft
C17_Witness ==
    /\ resp.op = "update_draft"
    /\ resp.status_code = 200
    /\ \E d \in 1..Len(drafts) : drafts[d].status = "approved"

\* C18: submission_date is written only by a successful submission: a step
\* that changes a Draft's submission_date, or creates a Draft that has one,
\* is a submit_draft_to_classroom call that answered 200.
C18_SubmissionDateOnlyBySubmit ==
    [][\A d \in 1..Len(drafts') :
          (\/ d > Len(drafts) /\ drafts'[d].submission_date # NULL
           \/ d <= Len(drafts)
              /\ drafts'[d].submission_date # drafts[d].submission_date)
          => (resp'.op = SUBMIT /\ resp'.status_code = 200)]_vars

\* an update carrying a submission date has been applied to a draft
C18_Witness ==
    /\ resp.op = "update_draft"
    /\ resp.status_code = 200
    /\ \E d \in 1..Len(drafts) :
          /\ drafts[d].submission_date # NULL
          /\ drafts[d].status # "submitted"

----------------------------------------------------------------------------
(* Claims about the content of a material *)

\* the last request was a coursework sync of one item with one attachment
OneAttachmentSynced ==
    /\ resp'.op = "get_assignments"
    /\ resp'.status_code = 200
    /\ DOMAIN resp'.m_input = {1}
    /\ Len(resp'.m_input[1][3]) = 1

\* the object under the first variant key of the attachment just synced
SyncedInner ==
    LET m == resp'.m_input[1][3][1]
    IN  m.inner[KeyOrder[FirstKey(m)]]

\* what the downloads of the last sync yielded
DownloadResults ==
    {resp'.calls[k][3] : k \in {j \in 1..Len(resp'.calls) :
                                  resp'.calls[j][1] = "drive.download_file"}}

MaterialCreated == Len(materials') = Len(materials) + 1

\* the row the sync wrote: the new one, or the existing row of the same
\* remote id and URL
WrittenRow ==
    IF MaterialCreated THEN Len(materials')
    ELSE First({i \in 1..Len(materials) :
                  /\ materials[i].google_material_id = SyncedInner.id
                  /\ materials[i].url = SyncedInner.link})

\* C19: when the download of a Drive file is attempted and fails (no stream,
\* or bytes that do not decode), the row written holds a marker text, not
\* null; a newly created row has null content exactly when no download was
\* attempted.
C19_FailedDownloadStoresMarker ==
    [][OneAttachmentSynced
       => /\ DL_FAIL \in DownloadResults
             => materials'[WrittenRow].content = "[Content download failed]"
          /\ DL_UNDECODABLE \in DownloadResults
             => materials'[WrittenRow].content = "[Error decoding content]"
          /\ MaterialCreated
             => (materials'[WrittenRow].content = NULL
                   <=> DownloadResults = {})]_vars

\* a failed download has put the marker in place of a text fetched earlier
C19_Witness ==
    /\ resp.op = "get_assignments" /\ resp.status_code = 200
    /\ \E k \in 1..Len(resp.calls) : resp.calls[k] =
          <<"drive.download_file", "none", DL_FAIL>>
    /\ resp.m_inserted = 0
    /\ \E i, j \in 1..Len(materials) :
          /\ materials[i].content = "[Content download failed]"
          /\ materials[i].url = "url_f1"
          /\ materials[j].type = "drive_file"
          /\ materials[j].content = NULL

\* C20: on the update path the content is overwritten only when the content
\* just fetched is non-empty, and is otherwise left as stored; title, url
\* and type are overwritten with those of the payload.
C20_UpdateKeepsContentOnEmpty ==
    [][(OneAttachmentSynced /\ ~MaterialCreated)
       => LET m == resp'.m_input[1][3][1]
              old == materials[WrittenRow]
              new == materials'[WrittenRow]
              fetched == DownloadResults \ {""}
          IN  /\ Len(materials') = Len(materials)
              /\ fetched = {} => new.content = old.content
              /\ \A r \in fetched :
                    new.content =
                       CASE r = DL_FAIL -> "[Content download failed]"
                         [] r = DL_UNDECODABLE -> "[Error decoding content]"
                         [] OTHER -> r
              /\ new.title = SyncedInner.title
              /\ new.url = SyncedInner.link
              /\ new.type = TypeOrder[FirstKey(m)]
              /\ \A i \in 1..Len(materials) :
                    i # WrittenRow => materials'[i] = materials[i]]_vars

\* an empty download has just left the text fetched earlier in place while
\* the title was replaced
C20_Witness ==
    /\ resp.op = "get_assignments" /\ resp.status_code = 200
    /\ resp.m_inserted = 0
    /\ \E k \in 1..Len(resp.calls) : resp.calls[k] =
          <<"drive.download_file", "stream", "">>
    /\ \E i \in 1..Len(materials) :
          /\ materials[i].title = "Doc v2"
          /\ materials[i].content = "text1"

----------------------------------------------------------------------------
(* Claims about the remote submission sequence *)

IsClassroomCall(c) == c[1] \in ClassroomCalls

SubmissionSequence == <<"studentSubmissions.create",
                        "studentSubmissions.modifyAttachments",
                        "studentSubmissions.turnIn">>

\* C21: the Classroom calls of a submission are a prefix of create, attach,
\* turn in, in that order and each at most once; a call is made only when
\* every earlier one returned without error; a call that fails is the last
\* call of the whole attempt (nothing is retried or undone) and the attempt
\* answers with the one submission failure.
C21_SubmissionSequence ==
    [][resp'.op = SUBMIT
       => LET cc == SelectSeq(resp'.calls, IsClassroomCall)
          IN  /\ Len(cc) <= 3
              /\ \A k \in 1..Len(cc) :
                    /\ cc[k][1] = SubmissionSequence[k]
                    /\ k < Len(cc) => cc[k][2] = "ok"
              /\ \A k \in 1..Len(resp'.calls) :
                    (/\ IsClassroomCall(resp'.calls[k])
                     /\ resp'.calls[k][2] \in {"http_error", "error"})
                    => /\ k = Len(resp'.calls)
                       /\ resp'.status_code = 500
                       /\ resp'.detail = "An error occurred during submission"
                       /\ drafts' = drafts]_vars

\* the attachment failed after the student submission was created: the
\* turn-in was not made and the created submission was left as it is
C21_Witness ==
    /\ resp.op = SUBMIT
    /\ resp.status_code = 500
    /\ Len(resp.calls) >= 2
    /\ resp.calls[Len(resp.calls) - 1] = <<"studentSubmissions.create", "ok">>
    /\ resp.calls[Len(resp.calls)]
          = <<"studentSubmissions.modifyAttachments", "http_error">>

\* the entry of the named call in a call log
CallEntry(calls, name) ==
    calls[CHOOSE k \in 1..Len(calls) : calls[k][1] = name]

\* C22: when find_or_create_folder returns no id the submission goes on: no
\* folder is created, the upload is made with no parent folder, and what
\* follows depends only on the upload and the Classroom calls, up to the
\* draft being marked submitted; when it returns an id the upload is made
\* into that folder, which is a folder of that name outside the trash.
C22_NoFolderUploadsToRoot ==
    [][(resp'.op = SUBMIT
        /\ Outcome(resp'.calls, "find_or_create_folder") # "na")
       => LET up == CallEntry(resp'.calls, "upload_file")
          IN  /\ Outcome(resp'.calls, "upload_file") # "na"
              /\ Outcome(resp'.calls, "find_or_create_folder") = "none"
                 => /\ up[3] = ABSENT
                    /\ folders' = folders
              /\ Outcome(resp'.calls, "find_or_create_folder") = "id"
                 => /\ Len(up[3]) = 1
                    /\ up[3][1] \in FolderSearch(folders', SubmissionFolder)
              /\ up[2] = "file_with_id"
                 => Outcome(resp'.calls, "GoogleClassroomService") # "na"
              /\ (/\ up[2] = "file_with_id"
                  /\ Outcome(resp'.calls, "GoogleClassroomService") = "ok")
                 => Outcome(resp'.calls, "studentSubmissions.create") # "na"
              /\ Outcome(resp'.calls, "studentSubmissions.turnIn")
                    = "ok_with_id"
                 => /\ resp'.status_code = 200
                    /\ \E i \in 1..Len(drafts') :
                          /\ drafts'[i].id = resp'.draft_id
                          /\ drafts'[i].status = "submitted"]_vars

\* a submission that found no folder, uploaded to the root and was turned
\* in, while the Drive holds no folder at all
C22_Witness ==
    /\ resp.op = SUBMIT
    /\ resp.status_code = 200
    /\ Outcome(resp.calls, "find_or_create_folder") = "none"
    /\ CallEntry(resp.calls, "upload_file")
          = <<"upload_file", "file_with_id", ABSENT>>
    /\ folders = <<>>

----------------------------------------------------------------------------
(* Claims about the submission folder *)

FCF == "find_or_create_folder"

\* the folders of the given name that are not in the trash
LiveFolders(fs, n) == {i \in 1..Len(fs) : fs[i].name = n /\ ~fs[i].trashed}

\* caller p completes a call that returns an id
ReturnsId(p) ==
    /\ callers[p].pc = "searched"
    /\ callers'[p].pc = "idle"
    /\ resp'.folder_id # NULL

\* C23: with calls made one after the other, a call that returns an id
\* returns the id of the folder of that name outside the trash and creates
\* nothing when there is one, and otherwise creates exactly one folder of
\* that name and returns its id; so there is never more than one folder of
\* a name outside the trash, and exactly one after such a call.
C23_SequentialCallsOneFolder ==
    [][/\ ReturnsId(1)
          => LET n == callers[1].name
                 live == LiveFolders(folders, n)
             IN  /\ IF live # {}
                    THEN /\ folders' = folders
                         /\ \E i \in live : folders[i].id = resp'.folder_id
                    ELSE /\ Len(folders') = Len(folders) + 1
                         /\ SubSeq(folders', 1, Len(folders)) = folders
                         /\ folders'[Len(folders')].name = n
                         /\ folders'[Len(folders')].id = resp'.folder_id
                         /\ \A i \in 1..Len(folders) :
                               folders[i].id # resp'.folder_id
                 /\ Cardinality(LiveFolders(folders', n)) = 1
       /\ \A n \in FolderNames : Cardinality(LiveFolders(folders', n)) <= 1]_vars

\* a third call has returned the folder the second call created after the
\* folder of the first call went to the trash
C23_Witness ==
    /\ resp.op = FCF
    /\ resp.folder_id # NULL
    /\ resp.inserted = 0
    /\ \E i, j \in 1..Len(folders) :
          /\ folders[i].name = resp.detail /\ folders[i].trashed
          /\ folders[j].name = resp.detail /\ ~folders[j].trashed
          /\ folders[j].id = resp.folder_id

\* C24: with calls that overlap, a folder is still created only by a caller
\* whose own search found no folder of the name; a second folder of a name
\* appears when that search was made before another caller's creation.
C24_RaceCreatesOnlyAfterEmptySearch ==
    [][\A n \in FolderNames :
          Cardinality(LiveFolders(folders', n))
             > Cardinality(LiveFolders(folders, n))
          => \E p \in Callers :
                /\ callers[p].pc = "searched"
                /\ callers[p].name = n
                /\ callers[p].items = {}
                /\ callers'[p].pc = "idle"
                /\ Cardinality(LiveFolders(folders', n))
                      = Cardinality(LiveFolders(folders, n)) + 1]_vars

\* two folders of one name outside the trash, the second created by a
\* caller whose search preceded the creation of the first
C24_Witness ==
    /\ Cardinality(LiveFolders(folders, SubmissionFolder)) = 2
    /\ resp.op = FCF
    /\ resp.inserted = 1
    /\ resp.detail = SubmissionFolder

----------------------------------------------------------------------------
(* Claims about the generation task and the other writers of a draft *)

\* C25: the task writes its result whatever the row holds: when it runs
\* after the draft was edited, or otherwise no longer has the placeholder
\* content and the status "generating", the content and the status the
\* row had are replaced by those of the task, and nothing else of the row
\* changes.
C25_TaskOverwritesEdit ==
    [][(/\ resp'.op = TASK
        /\ resp'.draft_id \in 1..Len(drafts)
        /\ drafts[resp'.draft_id].status # "generating")
       => LET d == resp'.draft_id
          IN  /\ resp'.replaced = <<drafts[d].content, drafts[d].status>>
              /\ drafts'[d].content # drafts[d].content
              /\ drafts'[d].status \in {"draft", "error"}
              /\ drafts'[d].status = "error" <=> resp'.detail = "raise"
              /\ drafts'[d].content =
                    CASE resp'.detail = "raise" ->
                            "Error generating content: e"
                      [] resp'.detail = "error_content" ->
                            "Error generating assignment solution. Please try again later."
                      [] OTHER -> "generated text"
              /\ drafts' = [drafts EXCEPT
                              ![d].content = drafts'[d].content,
                              ![d].status = drafts'[d].status]]_vars

\* the task has completed after a manual edit and replaced the edited text
C25_Witness ==
    /\ resp.op = TASK
    /\ resp.detail = "content"
    /\ resp.replaced = <<"edited", "draft">>
    /\ drafts[resp.draft_id].content = "generated text"
    /\ drafts[resp.draft_id].status = "draft"

\* C28: a step of the generation task leaves a Draft that is "submitted"
\* as it is.
C28_TaskLeavesSubmittedDraft ==
    [][resp'.op = TASK
       => \A d \in 1..Len(drafts) :
             drafts[d].status = "submitted" => drafts'[d] = drafts[d]]_vars

\* a draft submitted while its task was pending, then written by the task
C28_Witness ==
    /\ resp.op = TASK
    /\ Len(resp.replaced) = 2
    /\ resp.replaced[2] = "submitted"
    /\ drafts[resp.draft_id].submission_date = "now"
    /\ drafts[resp.draft_id].status # "submitted"

\* C27: a draft is turned in at most once: a submission makes no Classroom
\* call for a draft that an earlier submission has turned in (the earlier
\* submission left its date on the draft).
C27_TurnedInAtMostOnce ==
    [][(/\ resp'.op = SUBMIT
        /\ resp'.draft_id \in 1..Len(drafts)
        /\ drafts[resp'.draft_id].submission_date = "now")
       => \A k \in 1..Len(resp'.calls) :
             ~IsClassroomCall(resp'.calls[k])]_vars

\* a draft that was turned in and reset to "draft" by an edit: a second
\* submission has created a student submission for it and failed to turn
\* it in
C27_Witness ==
    /\ resp.op = SUBMIT
    /\ resp.status_code = 500
    /\ Outcome(resp.calls, "studentSubmissions.create") = "ok"
    /\ Outcome(resp.calls, "studentSubmissions.turnIn") = "http_error"
    /\ drafts[resp.draft_id].status = "draft"
    /\ drafts[resp.draft_id].submission_date = "now"

----------------------------------------------------------------------------
(* Claim about a failed download on the update path *)

FailureMarkers == {"[Content download failed]", "[Error decoding content]"}

\* C29: on the update path, when the row holds a text downloaded earlier and
\* the download of this sync fails, the row keeps that text.
C29_FailedDownloadKeepsContent ==
    [][(/\ OneAttachmentSynced
        /\ ~MaterialCreated
        /\ DownloadResults \cap {DL_FAIL, DL_UNDECODABLE} # {}
        /\ materials[WrittenRow].content \notin FailureMarkers \cup {NULL, ""})
       => materials'[WrittenRow].content = materials[WrittenRow].content]_vars

\* the row of the Drive file, renamed by the sync whose download failed,
\* holds the failure marker
C29_Witness ==
    /\ resp.op = "get_assignments" /\ resp.status_code = 200
    /\ resp.m_inserted = 0
    /\ \E k \in 1..Len(resp.calls) : resp.calls[k] =
          <<"drive.download_file", "none", DL_FAIL>>
    /\ \E i \in 1..Len(materials) :
          /\ materials[i].title = "Doc v2"
          /\ materials[i].content = "[Content download failed]"

----------------------------------------------------------------------------
(* Claim about the drafts of another user *)

DraftRequests == {"get_draft", "update_draft", "export_draft_to_pdf", SUBMIT}

\* C30: a request for a draft, to read, update, export or submit it, made
\* with the id of a draft that is not the caller's, whether the draft is
\* another user's or does not exist, is answered with the same 404 "Draft
\* not found", makes no renderer, Drive or Classroom call and leaves every
\* table and the local files as they were.
C30_ForeignDraftIsNotFound ==
    [][(/\ resp'.op \in DraftRequests
        /\ resp'.user \in Users
        /\ \A i \in 1..Len(drafts) :
              drafts[i].id = resp'.draft_id => drafts[i].user_id # resp'.user)
       => /\ resp' = [Reply(resp'.op, 404, "Draft not found") EXCEPT
                        !.draft_id = resp'.draft_id, !.user = resp'.user]
          /\ UNCHANGED <<users, courses, assignments, materials, drafts,
                         tmpfiles, tasks, folders, callers>>]_vars

\* user 2, with a Google token of their own, has asked to export the draft
\* user 1 edited and exported before
C30_Witness ==
    /\ resp.op = "export_draft_to_pdf"
    /\ resp.status_code = 404
    /\ resp.user = 2
    /\ users[2].google_access_token
    /\ tmpfiles # {}
    /\ \E i \in 1..Len(drafts) :
          /\ drafts[i].id = resp.draft_id
          /\ drafts[i].user_id = 1
          /\ drafts[i].content = "edited"

----------------------------------------------------------------------------
(* Claim about the token expiry *)

DriveCalls == {"drive.download_file", "find_or_create_folder", "upload_file"}

RemoteCalls == {"classroom.get_courses", "classroom.get_assignments"}
               \cup DriveCalls \cup ClassroomCalls

ServiceOf(name) == IF name \in DriveCalls THEN "drive" ELSE "classroom"

====
